---- MODULE Spec2Model ----
(***************************************************************************)
(* Selenium/QAF -> Playwright migration scripts (muraliky/TestData).        *)
(*                                                                         *)
(* The scripts are synchronous text transformers.  Each part of the model  *)
(* below is one function (or one script run) of the repository, written as *)
(* the loop the code runs, with its inputs drawn from bounded sets in the   *)
(* initial state.  Text is text: file contents, lines, descriptions and    *)
(* XPath expressions are strings, and the regular expressions of the code  *)
(* are run on them by a backtracking matcher with JavaScript's priorities. *)
(*                                                                         *)
(* Parts (each with its own specification):                                 *)
(*   SpecBrace    brace-depth scan of parseJavaSteps/parseJavaMethodsWithBody*)
(*   SpecFeature  script 02 convertFeatureContent, script 06 hasAndBut       *)
(*   SpecRules    script 08 matchStepPattern, script 03 convertXPathToPlaywright*)
(*   SpecParse    script 03 parseJavaPageClass                               *)
(*   SpecRewrite  a target page file under scripts 03 and 07 and hand edits  *)
(*   SpecConfig   the config loader of a script                              *)
(*   SpecScript   one script run on its own: start checks, then its units    *)
(*   SpecMigrate  migrate.js: arguments, main, the steps of a command        *)
(*   SpecFolders  the target directory of a source folder (01 and 02/03/04)  *)
(*   SpecPages    one run of script 03 over the page files and its report,  *)
(*                then script 06's analysis of the generated page files     *)
(*   SpecSteps    scripts 04 and 08 on one Java steps file                  *)
(*   SpecNames    target file names of scripts 03/04 and of scripts 07/08   *)
(***************************************************************************)
EXTENDS Integers, Sequences, FiniteSets, TLC

\* ------------------------------------------------------------------------
\* Text helpers.  Text is a TLA+ string; positions are 1-based here and
\* 0-based in the JavaScript source, so JS index k is position k + 1.
\* ------------------------------------------------------------------------

Min(a, b) == IF a <= b THEN a ELSE b

Max(a, b) == IF a >= b THEN a ELSE b

\* The character of s at position i (a one-character string)
CharAt(s, i) == SubSeq(s, i, i)

\* All strings over the set of characters A of length 0..n
RECURSIVE StringsUpTo(_, _)
StringsUpTo(A, n) ==
  IF n = 0 THEN {""}
  ELSE {""} \cup { c \o t : c \in A, t \in StringsUpTo(A, n - 1) }

\* JavaScript String.prototype.substring(a, b) on a 0-based string:
\* arguments are clamped to 0..length and swapped when a > b.
JsSubstring(s, a, b) ==
  LET ca == Max(0, Min(a, Len(s)))
      cb == Max(0, Min(b, Len(s)))
      lo == Min(ca, cb)
      hi == Max(ca, cb)
  IN  SubSeq(s, lo + 1, hi)

\* Characters that JavaScript's \s and String.prototype.trim treat as blank
WhiteSpace == {" ", "\t", "\r", "\n", "\f"}

RECURSIVE TrimLeft(_)
TrimLeft(s) ==
  IF Len(s) > 0 /\ Head(s) \in WhiteSpace THEN TrimLeft(Tail(s)) ELSE s

RECURSIVE TrimRight(_)
TrimRight(s) ==
  IF Len(s) > 0 /\ CharAt(s, Len(s)) \in WhiteSpace
  THEN TrimRight(SubSeq(s, 1, Len(s) - 1))
  ELSE s

\* String.prototype.trim
JsTrim(s) == TrimRight(TrimLeft(s))

\* String.prototype.includes / startsWith / endsWith
\* Does the text str stand in s at position i?
SameAt(str, s, i) ==
  /\ i >= 1 /\ i + Len(str) - 1 <= Len(s)
  /\ \A j \in 1..Len(str) : CharAt(s, i + j - 1) = CharAt(str, j)

Includes(s, sub) == \E i \in 1..(Len(s) - Len(sub) + 1) : SameAt(sub, s, i)

StartsWith(s, pre) == SameAt(pre, s, 1)

EndsWith(s, suf) == SameAt(suf, s, Len(s) - Len(suf) + 1)

UpperChars ==
  {"A","B","C","D","E","F","G","H","I","J","K","L","M",
   "N","O","P","Q","R","S","T","U","V","W","X","Y","Z"}

LowerChars ==
  {"a","b","c","d","e","f","g","h","i","j","k","l","m",
   "n","o","p","q","r","s","t","u","v","w","x","y","z"}

DigitChars == {"0","1","2","3","4","5","6","7","8","9"}

\* \w
WordChars == UpperChars \cup LowerChars \cup DigitChars \cup {"_"}

LowerOfChar(c) ==
  CASE c = "A" -> "a" [] c = "B" -> "b" [] c = "C" -> "c" [] c = "D" -> "d"
    [] c = "E" -> "e" [] c = "F" -> "f" [] c = "G" -> "g" [] c = "H" -> "h"
    [] c = "I" -> "i" [] c = "J" -> "j" [] c = "K" -> "k" [] c = "L" -> "l"
    [] c = "M" -> "m" [] c = "N" -> "n" [] c = "O" -> "o" [] c = "P" -> "p"
    [] c = "Q" -> "q" [] c = "R" -> "r" [] c = "S" -> "s" [] c = "T" -> "t"
    [] c = "U" -> "u" [] c = "V" -> "v" [] c = "W" -> "w" [] c = "X" -> "x"
    [] c = "Y" -> "y" [] c = "Z" -> "z" [] OTHER -> c

\* String.prototype.toLowerCase
RECURSIVE ToLowerCase(_)
ToLowerCase(s) ==
  IF Len(s) = 0 THEN ""
  ELSE IF Len(s) = 1 THEN LowerOfChar(s)
  ELSE LET h == Len(s) \div 2
       IN  ToLowerCase(SubSeq(s, 1, h)) \o ToLowerCase(SubSeq(s, h + 1, Len(s)))

\* ------------------------------------------------------------------------
\* Regular expressions.  A pattern of the source is written as a tree, node
\* for node, and run by a backtracking matcher that tries alternatives in
\* the order the JavaScript engine does (greedy: longest first, lazy:
\* shortest first, alternation: left to right), so the first success is
\* the match JavaScript reports.
\* ------------------------------------------------------------------------

ReLit(str) == [t |-> "lit", s |-> str]

\* [abc] and [^abc]; chars is a set of one-character strings
ReSet(chars) == [t |-> "set", chars |-> chars, neg |-> FALSE]

ReNotSet(chars) == [t |-> "set", chars |-> chars, neg |-> TRUE]

\* .  (any character but a line terminator)
ReDot == ReNotSet({"\n", "\r"})

ReCat(rs) == [t |-> "cat", rs |-> rs]

ReAlt(rs) == [t |-> "alt", rs |-> rs]

\* r{min,max}, max = -1 for no limit
ReRep(r, min, max, greedy) ==
  [t |-> "rep", r |-> r, min |-> min, max |-> max, greedy |-> greedy]

ReStar(r) == ReRep(r, 0, -1, TRUE)

RePlus(r) == ReRep(r, 1, -1, TRUE)

ReOpt(r) == ReRep(r, 0, 1, TRUE)

ReLazyPlus(r) == ReRep(r, 1, -1, FALSE)

ReLazyStar(r) == ReRep(r, 0, -1, FALSE)

\* capturing group number n
ReCap(n, r) == [t |-> "cap", n |-> n, r |-> r]

\* ^ and $ without the m flag, $ with the m flag
ReBol == [t |-> "bol"]

ReEol == [t |-> "eol"]

ReEolM == [t |-> "eolm"]

\* \s  \w  \d  ['"]
ReWs == ReSet(WhiteSpace)

ReWord == ReSet(WordChars)

ReDigit == ReSet(DigitChars)

ReQuote == ReSet({"'", "\""})

MaxGroups == 4

\* While a match is being found a group is the pair of the positions it
\* spans; groups that took no part are empty, which is as falsy as
\* JavaScript's undefined
NoCaps == [n \in 1..MaxGroups |-> <<1, 0>>]

\* The texts of the groups
CapTexts(s, caps) == [n \in 1..MaxGroups |-> SubSeq(s, caps[n][1], caps[n][2])]

ReFail == [ok |-> FALSE]

UpperOfChar(c) ==
  IF c \in LowerChars
  THEN CHOOSE u \in UpperChars : LowerOfChar(u) = c
  ELSE c

ReCharOk(node, c, ci) ==
  LET hit == \/ c \in node.chars
             \/ ci /\ (LowerOfChar(c) \in node.chars \/ UpperOfChar(c) \in node.chars)
  IN  IF node.neg THEN ~hit ELSE hit

ReLitOk(str, s, i, ci) ==
  /\ i + Len(str) - 1 <= Len(s)
  /\ \A j \in 1..Len(str) :
       \/ CharAt(s, i + j - 1) = CharAt(str, j)
       \/ ci /\ LowerOfChar(CharAt(s, i + j - 1)) = LowerOfChar(CharAt(str, j))

\* The first position in lo..hi whose character the set node rejects,
\* hi + 1 when there is none (the end of the run of accepted characters).
RECURSIVE ReRunEnd(_, _, _, _, _)
ReRunEnd(node, s, lo, hi, ci) ==
  IF lo > hi THEN lo
  ELSE IF lo = hi
       THEN (IF ReCharOk(node, CharAt(s, lo), ci) THEN lo + 1 ELSE lo)
       ELSE LET mid == (lo + hi) \div 2
                l == ReRunEnd(node, s, lo, mid, ci)
            IN  IF l <= mid THEN l ELSE ReRunEnd(node, s, mid + 1, hi, ci)

\* How many characters from position i on the repeated set r.r accepts,
\* up to r.max
ReRunOf(r, s, i, ci) ==
  ReRunEnd(r.r, s, i,
           IF r.max = -1 THEN Len(s) ELSE Min(Len(s), i + r.max - 1), ci) - i

\* Does the set node accept none of the characters of the set `chars`?
ReApart(node, chars, ci) == \A c \in chars : ~ReCharOk(node, c, ci)

\* Is no character that the set node accepts one that a match of the
\* nodes of `rest` can begin with, and is there no empty match of them?
\* Then a run of characters of the set that is followed by `rest` has to
\* be taken whole: after a shorter one the next character is one of the
\* set.
RECURSIVE ReWhole(_, _, _)
ReWhole(node, rest, ci) ==
  IF rest = <<>> THEN FALSE
  ELSE CASE Head(rest).t = "lit" ->
              /\ Len(Head(rest).s) > 0
              /\ ~ReCharOk(node, CharAt(Head(rest).s, 1), ci)
         [] Head(rest).t = "set" ->
              ~Head(rest).neg /\ ReApart(node, Head(rest).chars, ci)
         [] Head(rest).t = "rep" ->
              IF Head(rest).max = 0 THEN ReWhole(node, Tail(rest), ci)
              ELSE /\ IF Head(rest).r.t = "set"
                      THEN /\ ~Head(rest).r.neg
                           /\ ReApart(node, Head(rest).r.chars, ci)
                      ELSE ReWhole(node, <<Head(rest).r>> \o Tail(rest), ci)
                   /\ Head(rest).min >= 1 \/ ReWhole(node, Tail(rest), ci)
         [] Head(rest).t = "alt" ->
              \A k \in 1..Len(Head(rest).rs) :
                 ReWhole(node, <<Head(rest).rs[k]>> \o Tail(rest), ci)
         [] Head(rest).t = "cat" ->
              ReWhole(node, Head(rest).rs \o Tail(rest), ci)
         [] Head(rest).t = "cap" ->
              ReWhole(node, <<Head(rest).r>> \o Tail(rest), ci)
         [] Head(rest).t = "capend" -> ReWhole(node, Tail(rest), ci)
         [] Head(rest).t = "eol" -> TRUE
         [] OTHER -> FALSE

\* Is nothing left to match but the ends of groups?
ReEnds(rest) == \A k \in 1..Len(rest) : rest[k].t = "capend"

\* The matcher works on [ok, stack, i, caps]: the nodes still to match, in
\* order, the position in s and the groups so far.
ReAt(stack, i, caps) == [ok |-> TRUE, stack |-> stack, i |-> i, caps |-> caps]

ReDead == [ok |-> FALSE, stack |-> <<>>, i |-> 0, caps |-> NoCaps]

\* A run of `run` characters of a repeated set in front of `rest`, when
\* only one length can be that of the match: the whole run, or (nothing
\* follows and the repetition is lazy) the least
ReTake(st, r, rest, run) ==
  IF run < r.min THEN ReDead
  ELSE [st EXCEPT !.stack = rest,
                  !.i = st.i + (IF ReEnds(rest) /\ ~r.greedy THEN r.min ELSE run)]

\* Does the first node r of the stack leave the matcher no choice?
RePlain(r, rest, ci) ==
  \/ r.t \in {"lit", "set", "cat", "cap", "capend", "bol", "eol", "eolm"}
  \/ r.t = "rep" /\ r.max = 0
  \/ r.t = "rep" /\ r.max # 0 /\ r.r.t = "set"
       /\ (ReEnds(rest) \/ ReWhole(r.r, rest, ci))

\* One step on a first node r that leaves no choice
ReStepOn(st, r, rest, s, ci) ==
  CASE r.t = "lit" ->
         IF ReLitOk(r.s, s, st.i, ci)
         THEN [st EXCEPT !.stack = rest, !.i = st.i + Len(r.s)]
         ELSE ReDead
    [] r.t = "set" ->
         IF st.i <= Len(s) /\ ReCharOk(r, CharAt(s, st.i), ci)
         THEN [st EXCEPT !.stack = rest, !.i = st.i + 1]
         ELSE ReDead
    [] r.t = "cat" -> [st EXCEPT !.stack = r.rs \o rest]
    [] r.t = "cap" ->
         [st EXCEPT !.stack = <<r.r, [t |-> "capend", n |-> r.n, from |-> st.i]>>
                                \o rest]
    [] r.t = "capend" ->
         [st EXCEPT !.stack = rest, !.caps[r.n] = <<r.from, st.i - 1>>]
    [] r.t = "bol" -> IF st.i = 1 THEN [st EXCEPT !.stack = rest] ELSE ReDead
    [] r.t = "eol" ->
         IF st.i = Len(s) + 1 THEN [st EXCEPT !.stack = rest] ELSE ReDead
    [] r.t = "eolm" ->
         IF st.i = Len(s) + 1 \/ CharAt(s, st.i) \in {"\n", "\r"}
         THEN [st EXCEPT !.stack = rest]
         ELSE ReDead
    [] r.t = "rep" /\ r.max = 0 ->
         IF r.min > 0 THEN ReDead ELSE [st EXCEPT !.stack = rest]
    [] r.t = "rep" /\ r.max # 0 ->
         ReTake(st, r, rest, ReRunOf(r, s, st.i, ci))

\* The steps that leave no choice, up to the first node that does, the
\* end of the pattern or a failure
RECURSIVE ReAdvance(_, _, _)
ReAdvance(st, s, ci) ==
  IF st.ok /\ st.stack # <<>> /\ RePlain(Head(st.stack), Tail(st.stack), ci)
  THEN ReAdvance(ReStepOn(st, Head(st.stack), Tail(st.stack), s, ci), s, ci)
  ELSE st

\* The first of two attempts that succeeded
ReFirstOf(l, r) == IF l.ok THEN l ELSE r

\* The greatest (greedy) or least (lazy) of the lengths ns
ReBestLen(ns, greedy) ==
  IF greedy THEN CHOOSE n \in ns : \A m \in ns : m <= n
  ELSE CHOOSE n \in ns : \A m \in ns : n <= m

RECURSIVE ReRun(_, _, _, _, _)
RECURSIVE ReRunAlt(_, _, _, _, _, _, _)

\* Continue with `rest` after the best of the lengths ns
ReRunLen(rest, s, i, caps, ci, ns, greedy) ==
  IF ns = {} THEN ReFail
  ELSE ReRun(rest, s, i + ReBestLen(ns, greedy), caps, ci)

\* Continue with `rest` after a run of lo..hi characters from i: the
\* longest (greedy) or shortest (lazy) length after which `rest` matches
ReRunLens(rest, s, i, caps, ci, lo, hi, greedy) ==
  ReRunLen(rest, s, i, caps, ci,
           { n \in lo..hi : ReRun(rest, s, i + n, caps, ci).ok }, greedy)

\* r{min,max} of a node that is no set: once more, or no more
ReRunRep(r, rest, s, i, caps, ci) ==
  IF r.greedy
  THEN ReFirstOf(
         ReRun(<<r.r, [r EXCEPT !.min = Max(0, r.min - 1),
                                !.max = IF r.max = -1 THEN -1 ELSE r.max - 1]>>
                 \o rest, s, i, caps, ci),
         IF r.min > 0 THEN ReFail ELSE ReRun(rest, s, i, caps, ci))
  ELSE ReFirstOf(
         IF r.min > 0 THEN ReFail ELSE ReRun(rest, s, i, caps, ci),
         ReRun(<<r.r, [r EXCEPT !.min = Max(0, r.min - 1),
                                !.max = IF r.max = -1 THEN -1 ELSE r.max - 1]>>
                 \o rest, s, i, caps, ci))

ReRunAlt(alts, k, rest, s, i, caps, ci) ==
  IF k > Len(alts) THEN ReFail
  ELSE ReFirstOf(ReRun(<<alts[k]>> \o rest, s, i, caps, ci),
                 ReRunAlt(alts, k + 1, rest, s, i, caps, ci))

\* The matcher at st, where no step without a choice is left: the
\* alternatives of the first node are tried in the order JavaScript tries
\* them
ReRunOn(st, s, ci) ==
  CASE ~st.ok -> ReFail
    [] st.ok /\ st.stack = <<>> -> [ok |-> TRUE, e |-> st.i, c |-> st.caps]
    [] st.ok /\ st.stack # <<>> /\ Head(st.stack).t = "alt" ->
         ReRunAlt(Head(st.stack).rs, 1, Tail(st.stack), s, st.i, st.caps, ci)
    [] st.ok /\ st.stack # <<>> /\ Head(st.stack).t = "rep"
         /\ Head(st.stack).r.t = "set" ->
         ReRunLens(Tail(st.stack), s, st.i, st.caps, ci, Head(st.stack).min,
                   ReRunOf(Head(st.stack), s, st.i, ci), Head(st.stack).greedy)
    [] st.ok /\ st.stack # <<>> /\ Head(st.stack).t = "rep"
         /\ Head(st.stack).r.t # "set" ->
         ReRunRep(Head(st.stack), Tail(st.stack), s, st.i, st.caps, ci)

\* Match the nodes of `stack`, in order, against s from position i.
\* The result is the first success in backtracking order, or ReFail.
ReRun(stack, s, i, caps, ci) ==
  ReRunOn(ReAdvance(ReAt(stack, i, caps), s, ci), s, ci)

ReMatchAt(s, lo, m) ==
  IF m.ok THEN [ok |-> TRUE, b |-> lo, e |-> m.e, c |-> CapTexts(s, m.c)]
  ELSE ReFail

\* The match at the least of the positions `hits`
ReSearchAt(r, s, ci, hits) ==
  IF hits = {} THEN ReFail
  ELSE ReMatchAt(s, CHOOSE i \in hits : \A j \in hits : i <= j,
                 ReRun(<<r>>, s, CHOOSE i \in hits : \A j \in hits : i <= j,
                       NoCaps, ci))

\* The leftmost match of r in s with its first position in lo..hi:
\* [ok, b (first position), e (position after the match), c (groups)]
ReSearchIn(r, s, lo, hi, ci) ==
  IF lo = hi THEN ReMatchAt(s, lo, ReRun(<<r>>, s, lo, NoCaps, ci))
  ELSE ReSearchAt(r, s, ci,
                  { i \in lo..hi : ReRun(<<r>>, s, i, NoCaps, ci).ok })

\* Does every match of r begin at the start of the text (a leading ^)?
ReAnchored(r) ==
  \/ r.t = "bol"
  \/ r.t = "cat" /\ Len(r.rs) > 0 /\ r.rs[1].t = "bol"

ReSearchFrom(r, s, from, ci) ==
  IF ReAnchored(r)
  THEN (IF from = 1 THEN ReSearchIn(r, s, 1, 1, ci) ELSE ReFail)
  ELSE ReSearchIn(r, s, from, Len(s) + 1, ci)

\* str.match(re) / re.exec(str) without the g flag
ReSearch(r, s, ci) == ReSearchFrom(r, s, 1, ci)

\* re.test(str)
ReTest(r, s, ci) == ReSearch(r, s, ci).ok

\* Numbers: Number("123"), String(n)
DigitValue(c) ==
  CASE c = "0" -> 0 [] c = "1" -> 1 [] c = "2" -> 2 [] c = "3" -> 3
    [] c = "4" -> 4 [] c = "5" -> 5 [] c = "6" -> 6 [] c = "7" -> 7
    [] c = "8" -> 8 [] c = "9" -> 9

DigitChar(d) ==
  CASE d = 0 -> "0" [] d = 1 -> "1" [] d = 2 -> "2" [] d = 3 -> "3"
    [] d = 4 -> "4" [] d = 5 -> "5" [] d = 6 -> "6" [] d = 7 -> "7"
    [] d = 8 -> "8" [] d = 9 -> "9"

RECURSIVE ReGroupCount(_)
\* The number of capture groups of a pattern
ReGroupCount(r) ==
  CASE r.t = "cap" -> Max(r.n, ReGroupCount(r.r))
    [] r.t = "rep" -> ReGroupCount(r.r)
    [] r.t \in {"cat", "alt"} ->
         IF r.rs = <<>> THEN 0
         ELSE Max(ReGroupCount(Head(r.rs)),
                  ReGroupCount([t |-> r.t, rs |-> Tail(r.rs)]))
    [] OTHER -> 0

RECURSIVE ExpandFrom(_, _, _, _, _)
\* The replacement text of str.replace from the "$" at position p on:
\* $$, $&, $' and $n are replaced ($n only for a group the pattern has)
ExpandAt(text, p, c, s, m, groups) ==
  IF p = Len(text) THEN "$"
  ELSE IF c = "$" THEN "$" \o ExpandFrom(text, p + 2, s, m, groups)
  ELSE IF c = "&"
  THEN SubSeq(s, m.b, m.e - 1) \o ExpandFrom(text, p + 2, s, m, groups)
  ELSE IF c = "'"
  THEN SubSeq(s, m.e, Len(s)) \o ExpandFrom(text, p + 2, s, m, groups)
  ELSE IF c \in DigitChars \ {"0"} /\ DigitValue(c) <= groups
  THEN m.c[DigitValue(c)] \o ExpandFrom(text, p + 2, s, m, groups)
  ELSE "$" \o ExpandFrom(text, p + 1, s, m, groups)

\* The text from position i up to the next "$" at p, and the rest expanded
ExpandUpTo(text, i, p, s, m, groups) ==
  IF p > Len(text) THEN SubSeq(text, i, Len(text))
  ELSE SubSeq(text, i, p - 1)
         \o ExpandAt(text, p, CharAt(text, p + 1), s, m, groups)

\* The replacement text of str.replace, from position i on
ExpandFrom(text, i, s, m, groups) ==
  ExpandUpTo(text, i, ReRunEnd(ReNotSet({"$"}), text, i, Len(text), FALSE),
             s, m, groups)

\* s with the match m replaced by the replacement text
ReplaceMatch(s, m, text, groups) ==
  IF m.ok
  THEN SubSeq(s, 1, m.b - 1) \o ExpandFrom(text, 1, s, m, groups)
         \o SubSeq(s, m.e, Len(s))
  ELSE s

\* str.replace(re, text) without the g flag: the first match is replaced
JsReplaceFirst(s, r, ci, text) ==
  ReplaceMatch(s, ReSearch(r, s, ci), text, ReGroupCount(r))

\* str.replace(re, text) with the g flag: every match, left to right
RECURSIVE JsReplaceAllFrom(_, _, _, _, _)
\* the text from `from` on with the match m, and every later one, replaced
ReplaceAllAt(s, r, ci, text, from, m) ==
  IF ~m.ok THEN SubSeq(s, from, Len(s))
  ELSE IF m.e > m.b
       THEN SubSeq(s, from, m.b - 1) \o text
              \o JsReplaceAllFrom(s, r, ci, text, m.e)
       ELSE IF m.b > Len(s) THEN SubSeq(s, from, Len(s)) \o text
       ELSE SubSeq(s, from, m.b - 1) \o text \o CharAt(s, m.b)
              \o JsReplaceAllFrom(s, r, ci, text, m.b + 1)

JsReplaceAllFrom(s, r, ci, text, from) ==
  ReplaceAllAt(s, r, ci, text, from, ReSearchFrom(r, s, from, ci))

JsReplaceAll(s, r, ci, text) == JsReplaceAllFrom(s, r, ci, text, 1)

\* The matches of repeated re.exec(str) with the g flag (str.matchAll(re))
RECURSIVE ReMatchAllFrom(_, _, _, _)
\* the match m and every later one
ReMatchAllAt(r, s, ci, m) ==
  IF ~m.ok THEN <<>>
  ELSE <<m>> \o ReMatchAllFrom(r, s, ci, IF m.e > m.b THEN m.e ELSE m.b + 1)

ReMatchAllFrom(r, s, ci, from) ==
  ReMatchAllAt(r, s, ci, ReSearchFrom(r, s, from, ci))

ReMatchAll(r, s, ci) == ReMatchAllFrom(r, s, ci, 1)

\* str.split(re) for a pattern that matches no empty string
RECURSIVE JsSplitReFrom(_, _, _)
\* the pieces of s from `from` on, m the next match of the separator
SplitReAt(s, r, from, m) ==
  IF ~m.ok \/ m.b > Len(s) THEN <<SubSeq(s, from, Len(s))>>
  ELSE <<SubSeq(s, from, m.b - 1)>> \o JsSplitReFrom(s, r, m.e)

JsSplitReFrom(s, r, from) ==
  SplitReAt(s, r, from, ReSearchFrom(r, s, from, FALSE))

JsSplitRe(s, r) == IF s = "" THEN <<"">> ELSE JsSplitReFrom(s, r, 1)

\* Replace every character of s by f[c] (f a function on one-character
\* strings), the rest unchanged
RECURSIVE MapChars(_, _)
MapChars(s, f) ==
  IF Len(s) = 0 THEN ""
  ELSE IF Len(s) = 1 THEN (IF s \in DOMAIN f THEN f[s] ELSE s)
  ELSE LET h == Len(s) \div 2
       IN  MapChars(SubSeq(s, 1, h), f) \o MapChars(SubSeq(s, h + 1, Len(s)), f)

RECURSIVE ParseInt(_)
ParseInt(s) ==
  IF Len(s) = 0 THEN 0
  ELSE 10 * ParseInt(SubSeq(s, 1, Len(s) - 1)) + DigitValue(CharAt(s, Len(s)))

RECURSIVE NatToString(_)
NatToString(n) ==
  IF n < 10 THEN DigitChar(n)
  ELSE NatToString(n \div 10) \o DigitChar(n % 10)

IntToString(n) == IF n < 0 THEN "-" \o NatToString(0 - n) ELSE NatToString(n)

\* The first position of character ch in s, Len(s) + 1 when absent
FirstPos(s, ch) == ReRunEnd(ReNotSet({ch}), s, 1, Len(s), FALSE)

\* str.split(ch) for a one-character separator
RECURSIVE JsSplit(_, _)
JsSplit(s, ch) ==
  LET p == FirstPos(s, ch)
  IN  IF p > Len(s) THEN <<s>>
      ELSE <<SubSeq(s, 1, p - 1)>> \o JsSplit(SubSeq(s, p + 1, Len(s)), ch)

\* array.join(sep)
RECURSIVE JsJoin(_, _)
JsJoin(a, sep) ==
  IF Len(a) = 0 THEN ""
  ELSE IF Len(a) = 1 THEN a[1]
  ELSE a[1] \o sep \o JsJoin(Tail(a), sep)

\* All sequences over S of length 0..n
SeqsUpTo(S, n) == UNION { [1..k -> S] : k \in 0..n }

\* ------------------------------------------------------------------------
\* State
\* ------------------------------------------------------------------------

VARIABLES
  \* brace scan (08 parseJavaSteps, 07 parseJavaMethodsWithBody)
  content,      \* the Java file text
  startIndex,   \* match.index + match[0].length: index just after the "{"
  braceCount,
  endIndex,
  scanSteps,    \* how many times the body of the scan loop has run
  body,         \* the extracted body, or NoBody while scanning
  scanPc,       \* "scan" | "done" | "idle"
  \* script 02 convertFeatureContent, script 06 hasAndBut
  featSource,     \* the source .feature file text
  lines,          \* content.split('\n')
  lineIdx,        \* the loop variable i
  lastKeyword,
  convertedLines,
  conversions,
  featTarget,     \* the target .feature file text once written
  featStatus,     \* script 06's status of the target file
  featPc,         \* "loop" | "written" | "reported" | "idle"
  \* script 08 matchStepPattern
  description,    \* the argument description
  params,         \* the argument params
  ruleIdx,        \* how many rules of stepPatterns the loop has passed
  matches,        \* description.match(pattern) of the rule being tried
  caught,         \* the rules whose generator threw into the catch
  implementation, \* the returned text, Null for null
  matchPc,        \* "loop" | "try" | "returned" | "escaped" | "idle"
  \* script 03 convertXPathToPlaywright
  xpathArg,       \* the argument xpath
  xpVersion,      \* 1: the function at line 65, 2: the function at line 485
  xpath,          \* the local xpath, cleaned by the first statement
  xpRule,         \* how many rules have been passed
  xpMatch,        \* xpath.match(...) of the rule being tried
  xpResult,       \* the returned result
  xpPc,           \* "clean" | "rules" | "try" | "returned" | "idle"
  \* script 03 parseJavaPageClass
  pageContent,    \* the text of the Java page class
  declared,       \* the names of the fields the class declares
  parseVersion,   \* 1: the function at line 162, 2: the function at line 647
  className,      \* result.className
  passIdx,        \* which of the function's while loops is running
  lastIndex,      \* the lastIndex of the loop's regular expression
  execMatch,      \* what regex.exec(content) returned
  locators,       \* result.locators
  methods,        \* result.methods
  parsePc,        \* "class" | "exec" | "body" | "done" | "idle"
  \* the target page file under scripts 03 and 07 and the user's editor
  javaSource,     \* the text of the Java page class the target comes from
  tsFile,         \* the text of the target file on disk, Absent before 03
  tsContent,      \* script 07: the text updateTypeScriptFile works on
  tsLocators,     \* script 07: the locator names found in the target
  javaMethods,    \* script 07: what parseJavaMethodsWithBody returned
  methodIdx,      \* script 07: how many methods forEach has passed
  todoMatch,      \* script 07: the match of todoPattern for the method
  implementedCount, \* script 07: implementedCount
  replacedUnits,  \* script 07: which units of the file this run replaced
  history,        \* the operations completed on the target, oldest first
  rwPc,           \* "ready" | "test" | "found" | "end" | "idle"
  \* a script's config loader
  cfgScript,      \* whose loader: "migrate", "01".."04", "06".."08"
  cfgContent,     \* the text of the config file, NoFile when it is missing
  cleanContent,   \* the text after the loader's replace calls
  config,         \* what JSON.parse returned
  cfgPc,          \* "start" | "parse" | "loaded" | "exit" | "idle"
  \* one script run on its own
  scScript,       \* which script: "01".."04", "06".."08"
  scConfig,       \* the text of the config file, NoFile when it is missing
  scRootExists,   \* does source.rootDir exist
  scKindExists,   \* does the source directory of the script's kind exist
  scTargetExists, \* does the target directory exist
  scUnits,        \* what will happen to each unit the run handles
  scIdx,          \* how many units the run has passed
  scDone,         \* the units handled without error
  scErrors,       \* the units whose error was caught and reported
  scPrinted,      \* the messages printed
  scExit,         \* the exit status, "none" while the process runs
  scPc,           \* "start" | "units" | "summary" | "ended" | "idle"
  \* migrate.js
  args,           \* process.argv.slice(2)
  configFile,     \* the text of migration-config.json, NoFile if missing
  sourceRootExists, \* does config.source.rootDir exist
  missingKind,    \* the kind whose source directory is missing, or "none"
  absentScript,   \* the step whose script file is missing, or "none"
  throwingStep,   \* the step whose script throws, or "none"
  argIdx,         \* the loop variable i, counted from 1
  configPath,
  command,
  stepQueue,      \* the steps the command has still to run
  started,        \* the steps started, in order
  results,        \* what each step that returned has returned
  produced,       \* who has written output, in order
  printed,        \* the messages printed
  exitStatus,     \* the exit status, "none" while the process runs
  mgPc,           \* "args" | "main" | "run" | "ended" | "idle"
  \* one source directory under script 01 and the script of its kind
  fdName,         \* the name of the source directory
  fdKind,         \* under which source directory: features, pages, steps
  fdMapped,       \* has folderMapping an entry for the name
  fdCreated,      \* the directory script 01 created, Absent before
  fdTarget,       \* the directory the generated files were written to
  fdPc,           \* "setup" | "generate" | "done" | "idle"
  \* one run of script 03 over the page files
  pgFiles,        \* the page files of the source tree
  pgIdx,          \* how many files the run has passed
  totalFiles,
  generatedFiles,
  conversionStats,
  report,         \* the report file, NoReport until it is written
  pgReview,       \* script 06: report.pages over the generated page files
  pgPc,           \* "files" | "reported" | "analysed" | "idle"
  \* one Java steps file under script 04 and then script 08
  stJava,         \* the text of the Java steps file
  stOrigin,       \* who writes the target: "script04" or "hand"
  stParsed,       \* script 04: what parseJavaStepsFile returned
  stTs,           \* the text of the .steps.ts file, Absent before
  stContent,      \* script 08: tsContent
  stSteps,        \* script 08: javaSteps
  stIdx,          \* script 08: how many steps forEach has passed
  stImplemented,  \* script 08: implementedCount
  stStats,        \* script 08: stats
  stCalls,        \* the calls of matchStepPattern, oldest first
  stReplaced,     \* the replacements made, oldest first
  stPc,           \* "target" | "ready" | "steps" | "done" | "idle"
  \* one source directory under a generator and its auto-implement script
  nmKind,         \* "pages" (scripts 03, 07) or "steps" (scripts 04, 08)
  nmItems,        \* fs.readdirSync(srcPath): the file names
  nmIdx,          \* how many items forEach has passed
  nmWritten,      \* the target file names written, oldest first
  nmLooked,       \* what the auto-implement script looked for, per item
  nmPc            \* "generate" | "implement" | "done" | "idle"

braceVars ==
  <<content, startIndex, braceCount, endIndex, scanSteps, body, scanPc>>

featVars == <<featSource, lines, lineIdx, lastKeyword, convertedLines,
              conversions, featTarget, featStatus, featPc>>

matchVars == <<description, params, ruleIdx, matches, caught, implementation,
               matchPc>>

xpathVars == <<xpathArg, xpVersion, xpath, xpRule, xpMatch, xpResult, xpPc>>

parseVars == <<pageContent, declared, parseVersion, className, passIdx,
               lastIndex, execMatch, locators, methods, parsePc>>

rewriteVars == <<javaSource, tsFile, tsContent, tsLocators, javaMethods,
                 methodIdx, todoMatch, implementedCount, replacedUnits,
                 history, rwPc>>

configVars == <<cfgScript, cfgContent, cleanContent, config, cfgPc>>

scriptVars == <<scScript, scConfig, scRootExists, scKindExists,
                scTargetExists, scUnits, scIdx, scDone, scErrors, scPrinted,
                scExit, scPc>>

migrateVars == <<args, configFile, sourceRootExists, missingKind,
                 absentScript, throwingStep, argIdx, configPath, command,
                 stepQueue, started, results, produced, printed, exitStatus,
                 mgPc>>

folderVars == <<fdName, fdKind, fdMapped, fdCreated, fdTarget, fdPc>>

pagesVars == <<pgFiles, pgIdx, totalFiles, generatedFiles, conversionStats,
               report, pgReview, pgPc>>

stepsVars == <<stJava, stOrigin, stParsed, stTs, stContent, stSteps, stIdx,
               stImplemented, stStats, stCalls, stReplaced, stPc>>

namesVars == <<nmKind, nmItems, nmIdx, nmWritten, nmLooked, nmPc>>

\* the parts added last
lastVars == <<stepsVars, namesVars>>

\* the parts added after the first six
laterVars == <<configVars, scriptVars, migrateVars, folderVars, pagesVars,
               lastVars>>

vars == <<braceVars, featVars, matchVars, xpathVars, parseVars, rewriteVars,
          laterVars>>

\* what the steps of one part leave alone: the state of the other parts
notBrace == <<featVars, matchVars, xpathVars, parseVars, rewriteVars,
   laterVars>>

notFeat == <<braceVars, matchVars, xpathVars, parseVars, rewriteVars,
   laterVars>>

notMatch == <<braceVars, featVars, xpathVars, parseVars, rewriteVars,
   laterVars>>

notXPath == <<braceVars, featVars, matchVars, parseVars, rewriteVars,
   laterVars>>

notParse == <<braceVars, featVars, matchVars, xpathVars, rewriteVars,
   laterVars>>

notRewrite == <<braceVars, featVars, matchVars, xpathVars, parseVars,
   laterVars>>

earlyVars == <<braceVars, featVars, matchVars, xpathVars, parseVars,
               rewriteVars>>

notConfig == <<earlyVars, scriptVars, migrateVars, folderVars, pagesVars,
   lastVars>>

notScript == <<earlyVars, configVars, migrateVars, folderVars, pagesVars,
   lastVars>>

notMigrate == <<earlyVars, configVars, scriptVars, folderVars, pagesVars,
   lastVars>>

notFolder == <<earlyVars, configVars, scriptVars, migrateVars, pagesVars,
   lastVars>>

notPages == <<earlyVars, configVars, scriptVars, migrateVars, folderVars,
   lastVars>>

notSteps == <<earlyVars, configVars, scriptVars, migrateVars, folderVars,
   pagesVars, namesVars>>

notNames == <<earlyVars, configVars, scriptVars, migrateVars, folderVars,
   pagesVars, stepsVars>>

\* ------------------------------------------------------------------------
\* Brace-depth scan
\*   src/08-auto-implement-steps.js 285-295, src/unnamed/part_002 432-443
\* ------------------------------------------------------------------------

MaxContent == 6

BraceAlphabet == {"{", "}", "a", " "}

NoBody == "<none>"

\* if (c === '{') braceCount++; if (c === '}') braceCount--;
BraceDeltaNoNesting(c) == IF c = "}" THEN -1 ELSE 0

BraceDelta(c) == IF c = "{" THEN 1 ELSE IF c = "}" THEN -1 ELSE 0

\* The method regex ends with "\{", so the character before startIndex is
\* the opening brace of the method.
BraceInit ==
  /\ content \in StringsUpTo(BraceAlphabet, MaxContent)
  /\ startIndex \in 1..Len(content)
  /\ CharAt(content, startIndex) = "{"
  /\ braceCount = 1
  /\ endIndex = startIndex
  /\ scanSteps = 0
  /\ body = NoBody
  /\ scanPc = "scan"

BraceIdle ==
  /\ content = ""
  /\ startIndex = 0
  /\ braceCount = 0
  /\ endIndex = 0
  /\ scanSteps = 0
  /\ body = NoBody
  /\ scanPc = "idle"

\* content[i] for the 0-based index i - 1: past the end of the text it is
\* undefined, which is neither brace
ContentAt(s, i) == IF i <= Len(s) THEN CharAt(s, i) ELSE ""

\* The loop condition: braceCount > 0 && endIndex < content.length
ScanContinuesNoLimit(count, end, len) == count > 0

ScanContinues(count, end, len) == count > 0 /\ end < len

\* while (braceCount > 0 && endIndex < content.length) { ...; endIndex++ }
ScanStep ==
  /\ scanPc = "scan"
  /\ ScanContinues(braceCount, endIndex, Len(content))
  /\ braceCount' = braceCount + BraceDelta(ContentAt(content, endIndex + 1))
  /\ endIndex' = endIndex + 1
  /\ scanSteps' = scanSteps + 1
  /\ UNCHANGED <<content, startIndex, body, scanPc, notBrace>>

\* const body = content.substring(startIndex, endIndex - 1).trim();
ScanDone ==
  /\ scanPc = "scan"
  /\ ~ScanContinues(braceCount, endIndex, Len(content))
  /\ body' = JsTrim(JsSubstring(content, startIndex, endIndex - 1))
  /\ scanPc' = "done"
  /\ UNCHANGED <<content, startIndex, braceCount, endIndex, scanSteps,
                 notBrace>>

BraceNext == ScanStep \/ ScanDone

\* ------------------------------------------------------------------------
\* Script 02: convertFeatureContent, and script 06: hasAndBut
\*   src/02-convert-features.js 84-123, 149-164; src/unnamed/part_003 93-104,
\*   147-161
\* ------------------------------------------------------------------------

MaxLines == 3

\* The lines feature files are built from: steps with every keyword,
\* indentation, a scenario header, an Examples header, a data-table row, a
\* blank line, a doc-string line that begins with the word Feature, lines
\* of a CRLF file (ending in "\r") and a step with two blanks after And.
FeatureLines ==
  { "Given a", "When b", "  Then c", "And d", "  But e",
    "Scenario: s", "Examples:", "| x |", "", "Feature flag on",
    "When b\r", "And d\r", "And  d" }

\* /^(\s*)(Given|When|Then)\s+(.*)$/
KeywordRe ==
  ReCat(<<ReBol, ReCap(1, ReStar(ReWs)),
          ReCap(2, ReAlt(<<ReLit("Given"), ReLit("When"), ReLit("Then")>>)),
          RePlus(ReWs), ReCap(3, ReStar(ReDot)), ReEol>>)

\* /^(\s*)(And|But)\s+(.*)$/
AndButRe ==
  ReCat(<<ReBol, ReCap(1, ReStar(ReWs)),
          ReCap(2, ReAlt(<<ReLit("And"), ReLit("But")>>)),
          RePlus(ReWs), ReCap(3, ReStar(ReDot)), ReEol>>)

\* /^\s*(Scenario|Background|Feature|Examples|Rule)/
ResetRe ==
  ReCat(<<ReBol, ReStar(ReWs),
          ReCap(1, ReAlt(<<ReLit("Scenario"), ReLit("Background"),
                           ReLit("Feature"), ReLit("Examples"), ReLit("Rule")>>))>>)

\* script 06: /^\s*(And|But)\s+/
HasAndButRe ==
  ReCat(<<ReBol, ReStar(ReWs),
          ReCap(1, ReAlt(<<ReLit("And"), ReLit("But")>>)), RePlus(ReWs)>>)

FeatInit ==
  /\ \E ls \in SeqsUpTo(FeatureLines, MaxLines) :
       /\ featSource = JsJoin(ls, "\n")
       /\ lines = JsSplit(JsJoin(ls, "\n"), "\n")
  /\ lineIdx = 0
  /\ lastKeyword = ""
  /\ convertedLines = <<>>
  /\ conversions = 0
  /\ featTarget = ""
  /\ featStatus = ""
  /\ featPc = "loop"

FeatIdle ==
  /\ featSource = ""
  /\ lines = <<>>
  /\ lineIdx = 0
  /\ lastKeyword = ""
  /\ convertedLines = <<>>
  /\ conversions = 0
  /\ featTarget = ""
  /\ featStatus = ""
  /\ featPc = "idle"

\* const line = lines[i]
CurrentLine == lines[lineIdx + 1]

\* the converted line without its indentation
ConvertedStepNoIndent(m, kw) == kw \o " " \o m.c[3]

\* convertedLines.push(indent + lastKeyword + ' ' + stepText)
ConvertedStep(m, kw) == m.c[1] \o kw \o " " \o m.c[3]

\* a Given/When/Then line: remember the keyword, copy the line
FeatKeywordLine ==
  /\ featPc = "loop" /\ lineIdx < Len(lines)
  /\ LET keywordMatch == ReSearch(KeywordRe, CurrentLine, FALSE)
     IN  /\ keywordMatch.ok
         /\ lastKeyword' = keywordMatch.c[2]
         /\ convertedLines' = Append(convertedLines, CurrentLine)
  /\ lineIdx' = lineIdx + 1
  /\ UNCHANGED <<featSource, lines, conversions, featTarget, featStatus, featPc, notFeat>>

\* an And/But line with a keyword to inherit: rewrite it
FeatAndButLine ==
  /\ featPc = "loop" /\ lineIdx < Len(lines)
  /\ ~ReTest(KeywordRe, CurrentLine, FALSE)
  /\ LET andButMatch == ReSearch(AndButRe, CurrentLine, FALSE)
     IN  /\ andButMatch.ok /\ lastKeyword # ""
         /\ convertedLines' =
              Append(convertedLines, ConvertedStep(andButMatch, lastKeyword))
  /\ conversions' = conversions + 1
  /\ lineIdx' = lineIdx + 1
  /\ UNCHANGED <<featSource, lines, lastKeyword, featTarget, featStatus, featPc, notFeat>>

\* the keyword is never reset (the if of line 112 left out)
KeywordAfterKept(line, kw) == kw

\* if (line.match(/^\s*(Scenario|Background|Feature|Examples|Rule)/))
\*   lastKeyword = ''
KeywordAfter(line, kw) == IF ReTest(ResetRe, line, FALSE) THEN "" ELSE kw

\* any other line: a header resets the keyword, the line is copied
FeatOtherLine ==
  /\ featPc = "loop" /\ lineIdx < Len(lines)
  /\ ~ReTest(KeywordRe, CurrentLine, FALSE)
  /\ ~(ReTest(AndButRe, CurrentLine, FALSE) /\ lastKeyword # "")
  /\ lastKeyword' = KeywordAfter(CurrentLine, lastKeyword)
  /\ convertedLines' = Append(convertedLines, CurrentLine)
  /\ lineIdx' = lineIdx + 1
  /\ UNCHANGED <<featSource, lines, conversions, featTarget, featStatus, featPc, notFeat>>

\* return { content: convertedLines.join('\n'), ... } and
\* fs.writeFileSync(tgtFilePath, result.content)
FeatWrite ==
  /\ featPc = "loop" /\ lineIdx = Len(lines)
  /\ featTarget' = JsJoin(convertedLines, "\n")
  /\ featPc' = "written"
  /\ UNCHANGED <<featSource, lines, lineIdx, lastKeyword, convertedLines,
                 conversions, featStatus, notFeat>>

\* script 06: hasAndBut(file)
hasAndBut(text) ==
  \E k \in 1..Len(JsSplit(text, "\n")) :
     ReTest(HasAndButRe, JsSplit(text, "\n")[k], FALSE)

\* script 06: status: andBut ? 'HAS AND/BUT' : 'CONVERTED'
FeatReport ==
  /\ featPc = "written"
  /\ featStatus' = IF hasAndBut(featTarget) THEN "HAS AND/BUT" ELSE "CONVERTED"
  /\ featPc' = "reported"
  /\ UNCHANGED <<featSource, lines, lineIdx, lastKeyword, convertedLines,
                 conversions, featTarget, notFeat>>

FeatNext ==
  FeatKeywordLine \/ FeatAndButLine \/ FeatOtherLine \/ FeatWrite \/ FeatReport

\* ------------------------------------------------------------------------
\* Script 08: stepPatterns and matchStepPattern
\*   src/08-auto-implement-steps.js 57-268
\* ------------------------------------------------------------------------

\* JavaScript's undefined and null where the code holds a string otherwise
Undefined == "<undefined>"

Null == "<null>"

\* Boolean(v) for a string or undefined
Truthy(v) == v # Undefined /\ v # Null /\ v # ""

\* a || b
JsOr(a, b) == IF Truthy(a) THEN a ELSE b

\* `${v}`
JsToString(v) == IF v = Undefined THEN "undefined" ELSE IF v = Null THEN "null" ELSE v

\* The params argument: an array of {name, type}, or not passed at all
ParamsArray(a) == [defined |-> TRUE, a |-> a]

ParamsUndefined == [defined |-> FALSE, a |-> <<>>]

\* params[k]?.name for a params array (k is 0-based as in the source)
ParamName(p, k) == IF k + 1 <= Len(p.a) THEN p.a[k + 1].name ELSE Undefined

\* /\s+/g, /button/i, /link/i
WhiteSpaceRunRe == RePlus(ReWs)

ButtonWordRe == ReLit("button")

LinkWordRe == ReLit("link")

\* The patterns of stepPatterns in declaration order (all with the i flag)
stepPatterns ==
  <<
    \* 1 (line 60): /user (?:navigates?|goes?) to ['"]?(.+?)['"]?$/i
    ReCat(<<ReLit("user "), ReAlt(<<ReCat(<<ReLit("navigate"),
    ReOpt(ReLit("s"))>>), ReCat(<<ReLit("goe"), ReOpt(ReLit("s"))>>)>>),
    ReLit(" to "), ReOpt(ReQuote), ReCap(1, ReLazyPlus(ReDot)),
    ReOpt(ReQuote), ReEol>>),
    \* 2 (line 65): /user (?:is on|opens?) (?:the )?['"]?(.+?)['"]? page$/i
    ReCat(<<ReLit("user "), ReAlt(<<ReLit("is on"), ReCat(<<ReLit("open"),
    ReOpt(ReLit("s"))>>)>>), ReLit(" "), ReOpt(ReLit("the ")), ReOpt(ReQuote),
    ReCap(1, ReLazyPlus(ReDot)), ReOpt(ReQuote), ReLit(" page"), ReEol>>),
    \* 3 (line 72): /user clicks? (?:on )?(?:the )?['"]?(.+?)['"]?$/i
    ReCat(<<ReLit("user click"), ReOpt(ReLit("s")), ReLit(" "),
    ReOpt(ReLit("on ")), ReOpt(ReLit("the ")), ReOpt(ReQuote), ReCap(1,
    ReLazyPlus(ReDot)), ReOpt(ReQuote), ReEol>>),
    \* 4 (line 84): /user clicks? (?:on )?(?:the )?button ['"]?(.+?)['"]?$/i
    ReCat(<<ReLit("user click"), ReOpt(ReLit("s")), ReLit(" "),
    ReOpt(ReLit("on ")), ReOpt(ReLit("the ")), ReLit("button "),
    ReOpt(ReQuote), ReCap(1, ReLazyPlus(ReDot)), ReOpt(ReQuote), ReEol>>),
    \* 5 (line 88): /user clicks? (?:on )?(?:the )?link ['"]?(.+?)['"]?$/i
    ReCat(<<ReLit("user click"), ReOpt(ReLit("s")), ReLit(" "),
    ReOpt(ReLit("on ")), ReOpt(ReLit("the ")), ReLit("link "), ReOpt(ReQuote),
    ReCap(1, ReLazyPlus(ReDot)), ReOpt(ReQuote), ReEol>>),
    \* 6 (line 92): /user clicks? (?:on )?(?:the )?tab ['"]?(.+?)['"]?$/i
    ReCat(<<ReLit("user click"), ReOpt(ReLit("s")), ReLit(" "),
    ReOpt(ReLit("on ")), ReOpt(ReLit("the ")), ReLit("tab "), ReOpt(ReQuote),
    ReCap(1, ReLazyPlus(ReDot)), ReOpt(ReQuote), ReEol>>),
    \* 7 (line 96): /user clicks? (?:on )?(?:an? )?Account$/i
    ReCat(<<ReLit("user click"), ReOpt(ReLit("s")), ReLit(" "),
    ReOpt(ReLit("on ")), ReOpt(ReCat(<<ReLit("a"), ReOpt(ReLit("n")),
    ReLit(" ")>>)), ReLit("Account"), ReEol>>),
    \* 8 (line 102): /user (?:enters?|types?|inputs?) ['"]?(.+?)['"]? (?:in|into) (?:the )?['"]?(.+?)['"]?(?: field)?$/i
    ReCat(<<ReLit("user "), ReAlt(<<ReCat(<<ReLit("enter"),
    ReOpt(ReLit("s"))>>), ReCat(<<ReLit("type"), ReOpt(ReLit("s"))>>),
    ReCat(<<ReLit("input"), ReOpt(ReLit("s"))>>)>>), ReLit(" "),
    ReOpt(ReQuote), ReCap(1, ReLazyPlus(ReDot)), ReOpt(ReQuote), ReLit(" "),
    ReAlt(<<ReLit("in"), ReLit("into")>>), ReLit(" "), ReOpt(ReLit("the ")),
    ReOpt(ReQuote), ReCap(2, ReLazyPlus(ReDot)), ReOpt(ReQuote),
    ReOpt(ReLit(" field")), ReEol>>),
    \* 9 (line 110): /user (?:enters?|types?|fills?) ['"]?(.+?)['"]?$/i
    ReCat(<<ReLit("user "), ReAlt(<<ReCat(<<ReLit("enter"),
    ReOpt(ReLit("s"))>>), ReCat(<<ReLit("type"), ReOpt(ReLit("s"))>>),
    ReCat(<<ReLit("fill"), ReOpt(ReLit("s"))>>)>>), ReLit(" "),
    ReOpt(ReQuote), ReCap(1, ReLazyPlus(ReDot)), ReOpt(ReQuote), ReEol>>),
    \* 10 (line 117): /user clears? (?:the )?['"]?(.+?)['"]?(?: field)?$/i
    ReCat(<<ReLit("user clear"), ReOpt(ReLit("s")), ReLit(" "),
    ReOpt(ReLit("the ")), ReOpt(ReQuote), ReCap(1, ReLazyPlus(ReDot)),
    ReOpt(ReQuote), ReOpt(ReLit(" field")), ReEol>>),
    \* 11 (line 123): /user selects? ['"]?(.+?)['"]? from (?:the )?['"]?(.+?)['"]?(?: dropdown)?$/i
    ReCat(<<ReLit("user select"), ReOpt(ReLit("s")), ReLit(" "),
    ReOpt(ReQuote), ReCap(1, ReLazyPlus(ReDot)), ReOpt(ReQuote),
    ReLit(" from "), ReOpt(ReLit("the ")), ReOpt(ReQuote), ReCap(2,
    ReLazyPlus(ReDot)), ReOpt(ReQuote), ReOpt(ReLit(" dropdown")), ReEol>>),
    \* 12 (line 131): /user selects? (?:the )?option ['"]?(.+?)['"]?$/i
    ReCat(<<ReLit("user select"), ReOpt(ReLit("s")), ReLit(" "),
    ReOpt(ReLit("the ")), ReLit("option "), ReOpt(ReQuote), ReCap(1,
    ReLazyPlus(ReDot)), ReOpt(ReQuote), ReEol>>),
    \* 13 (line 137): /user (?:checks?|selects?) (?:the )?['"]?(.+?)['"]? checkbox$/i
    ReCat(<<ReLit("user "), ReAlt(<<ReCat(<<ReLit("check"),
    ReOpt(ReLit("s"))>>), ReCat(<<ReLit("select"), ReOpt(ReLit("s"))>>)>>),
    ReLit(" "), ReOpt(ReLit("the ")), ReOpt(ReQuote), ReCap(1,
    ReLazyPlus(ReDot)), ReOpt(ReQuote), ReLit(" checkbox"), ReEol>>),
    \* 14 (line 141): /user unchecks? (?:the )?['"]?(.+?)['"]? checkbox$/i
    ReCat(<<ReLit("user uncheck"), ReOpt(ReLit("s")), ReLit(" "),
    ReOpt(ReLit("the ")), ReOpt(ReQuote), ReCap(1, ReLazyPlus(ReDot)),
    ReOpt(ReQuote), ReLit(" checkbox"), ReEol>>),
    \* 15 (line 147): /user waits? for (?:the )?page to load$/i
    ReCat(<<ReLit("user wait"), ReOpt(ReLit("s")), ReLit(" for "),
    ReOpt(ReLit("the ")), ReLit("page to load"), ReEol>>),
    \* 16 (line 151): /user waits? for (\d+) seconds?$/i
    ReCat(<<ReLit("user wait"), ReOpt(ReLit("s")), ReLit(" for "), ReCap(1,
    RePlus(ReDigit)), ReLit(" second"), ReOpt(ReLit("s")), ReEol>>),
    \* 17 (line 155): /user waits? (?:for )?(?:the )?['"]?(.+?)['"]? (?:to be )?(?:visible|displayed)$/i
    ReCat(<<ReLit("user wait"), ReOpt(ReLit("s")), ReLit(" "),
    ReOpt(ReLit("for ")), ReOpt(ReLit("the ")), ReOpt(ReQuote), ReCap(1,
    ReLazyPlus(ReDot)), ReOpt(ReQuote), ReLit(" "), ReOpt(ReLit("to be ")),
    ReAlt(<<ReLit("visible"), ReLit("displayed")>>), ReEol>>),
    \* 18 (line 161): /(?:user )?(?:should )?sees? (?:the )?(?:text )?['"]?(.+?)['"]?$/i
    ReCat(<<ReOpt(ReLit("user ")), ReOpt(ReLit("should ")), ReLit("see"),
    ReOpt(ReLit("s")), ReLit(" "), ReOpt(ReLit("the ")),
    ReOpt(ReLit("text ")), ReOpt(ReQuote), ReCap(1, ReLazyPlus(ReDot)),
    ReOpt(ReQuote), ReEol>>),
    \* 19 (line 165): /(?:user )?(?:should )?sees? (?:the )?['"]?(.+?)['"]? (?:is )?displayed$/i
    ReCat(<<ReOpt(ReLit("user ")), ReOpt(ReLit("should ")), ReLit("see"),
    ReOpt(ReLit("s")), ReLit(" "), ReOpt(ReLit("the ")), ReOpt(ReQuote),
    ReCap(1, ReLazyPlus(ReDot)), ReOpt(ReQuote), ReLit(" "),
    ReOpt(ReLit("is ")), ReLit("displayed"), ReEol>>),
    \* 20 (line 169): /(?:the )?page title should (?:be|contain) ['"]?(.+?)['"]?$/i
    ReCat(<<ReOpt(ReLit("the ")), ReLit("page title should "),
    ReAlt(<<ReLit("be"), ReLit("contain")>>), ReLit(" "), ReOpt(ReQuote),
    ReCap(1, ReLazyPlus(ReDot)), ReOpt(ReQuote), ReEol>>),
    \* 21 (line 173): /(?:the )?URL should contain ['"]?(.+?)['"]?$/i
    ReCat(<<ReOpt(ReLit("the ")), ReLit("URL should contain "),
    ReOpt(ReQuote), ReCap(1, ReLazyPlus(ReDot)), ReOpt(ReQuote), ReEol>>),
    \* 22 (line 177): /(?:user )?validates? (?:the )?['"]?(.+?)['"]?(?: tab)?(?: fields)?$/i
    ReCat(<<ReOpt(ReLit("user ")), ReLit("validate"), ReOpt(ReLit("s")),
    ReLit(" "), ReOpt(ReLit("the ")), ReOpt(ReQuote), ReCap(1,
    ReLazyPlus(ReDot)), ReOpt(ReQuote), ReOpt(ReLit(" tab")),
    ReOpt(ReLit(" fields")), ReEol>>),
    \* 23 (line 185): /(?:the )?['"]?(.+?)['"]? should be (?:visible|displayed)$/i
    ReCat(<<ReOpt(ReLit("the ")), ReOpt(ReQuote), ReCap(1, ReLazyPlus(ReDot)),
    ReOpt(ReQuote), ReLit(" should be "), ReAlt(<<ReLit("visible"),
    ReLit("displayed")>>), ReEol>>),
    \* 24 (line 189): /(?:the )?['"]?(.+?)['"]? should not be (?:visible|displayed)$/i
    ReCat(<<ReOpt(ReLit("the ")), ReOpt(ReQuote), ReCap(1, ReLazyPlus(ReDot)),
    ReOpt(ReQuote), ReLit(" should not be "), ReAlt(<<ReLit("visible"),
    ReLit("displayed")>>), ReEol>>),
    \* 25 (line 193): /(?:the )?['"]?(.+?)['"]? should (?:have|contain) (?:text|value) ['"]?(.+?)['"]?$/i
    ReCat(<<ReOpt(ReLit("the ")), ReOpt(ReQuote), ReCap(1, ReLazyPlus(ReDot)),
    ReOpt(ReQuote), ReLit(" should "), ReAlt(<<ReLit("have"),
    ReLit("contain")>>), ReLit(" "), ReAlt(<<ReLit("text"), ReLit("value")>>),
    ReLit(" "), ReOpt(ReQuote), ReCap(2, ReLazyPlus(ReDot)), ReOpt(ReQuote),
    ReEol>>),
    \* 26 (line 197): /account details should be displayed$/i
    ReCat(<<ReLit("account details should be displayed"), ReEol>>),
    \* 27 (line 204): /user logs? in(?:to)? (?:with )?(?:default )?(?:credentials)?/i
    ReCat(<<ReLit("user log"), ReOpt(ReLit("s")), ReLit(" in"),
    ReOpt(ReLit("to")), ReLit(" "), ReOpt(ReLit("with ")),
    ReOpt(ReLit("default ")), ReOpt(ReLit("credentials"))>>),
    \* 28 (line 212): /user logs? out$/i
    ReCat(<<ReLit("user log"), ReOpt(ReLit("s")), ReLit(" out"), ReEol>>),
    \* 29 (line 219): /user clicks? (?:on )?row (\d+)/i
    ReCat(<<ReLit("user click"), ReOpt(ReLit("s")), ReLit(" "),
    ReOpt(ReLit("on ")), ReLit("row "), ReCap(1, RePlus(ReDigit))>>),
    \* 30 (line 223): /user clicks? (?:on )?(?:the )?first row/i
    ReCat(<<ReLit("user click"), ReOpt(ReLit("s")), ReLit(" "),
    ReOpt(ReLit("on ")), ReOpt(ReLit("the ")), ReLit("first row")>>),
    \* 31 (line 229): /user scrolls? (?:to )?(?:the )?(?:bottom|end)/i
    ReCat(<<ReLit("user scroll"), ReOpt(ReLit("s")), ReLit(" "),
    ReOpt(ReLit("to ")), ReOpt(ReLit("the ")), ReAlt(<<ReLit("bottom"),
    ReLit("end")>>)>>),
    \* 32 (line 233): /user scrolls? (?:to )?(?:the )?top/i
    ReCat(<<ReLit("user scroll"), ReOpt(ReLit("s")), ReLit(" "),
    ReOpt(ReLit("to ")), ReOpt(ReLit("the ")), ReLit("top")>>),
    \* 33 (line 239): /user presses? (?:the )?(?:Enter|Return) key$/i
    ReCat(<<ReLit("user presse"), ReOpt(ReLit("s")), ReLit(" "),
    ReOpt(ReLit("the ")), ReAlt(<<ReLit("Enter"), ReLit("Return")>>),
    ReLit(" key"), ReEol>>),
    \* 34 (line 243): /user presses? (?:the )?Tab key$/i
    ReCat(<<ReLit("user presse"), ReOpt(ReLit("s")), ReLit(" "),
    ReOpt(ReLit("the ")), ReLit("Tab key"), ReEol>>),
    \* 35 (line 247): /user presses? (?:the )?Escape key$/i
    ReCat(<<ReLit("user presse"), ReOpt(ReLit("s")), ReLit(" "),
    ReOpt(ReLit("the ")), ReLit("Escape key"), ReEol>>)
  >>

\* Does generator k read params[...] for this match?  Reading an index of
\* an undefined params is a TypeError.  In every other generator
\* matches[1] (never empty) stands to the left of "||", so params is not
\* evaluated.
ReadsParams(k, m) ==
  \/ k = 8 /\ StartsWith(m.c[1], "{")
  \/ k = 9

\* The text generator k returns for the match m and the params array p
implementText(k, m, p) ==
  LET m1 == m.c[1]
      m2 == m.c[2]
      nl == "\n    "
  IN  CASE k = 1 ->
             "await page.goto('" \o m1 \o "');" \o nl
               \o "await page.waitForLoadState('networkidle');"
        [] k = 2 ->
             "await page.goto('/"
               \o JsReplaceAll(ToLowerCase(m1), WhiteSpaceRunRe, FALSE, "-")
               \o "');" \o nl \o "await page.waitForLoadState('networkidle');"
        [] k = 3 ->
             IF Includes(ToLowerCase(m1), "button")
             THEN "await page.getByRole('button', { name: /"
                    \o JsTrim(JsReplaceFirst(m1, ButtonWordRe, TRUE, ""))
                    \o "/i }).click();"
             ELSE IF Includes(ToLowerCase(m1), "link")
             THEN "await page.getByRole('link', { name: /"
                    \o JsTrim(JsReplaceFirst(m1, LinkWordRe, TRUE, ""))
                    \o "/i }).click();"
             ELSE "await page.getByText('" \o m1 \o "').click();"
        [] k = 4 ->
             "await page.getByRole('button', { name: '" \o m1 \o "' }).click();"
        [] k = 5 ->
             "await page.getByRole('link', { name: '" \o m1 \o "' }).click();"
        [] k = 6 ->
             "await page.getByRole('tab', { name: '" \o m1 \o "' }).click();"
        [] k = 7 -> "await page.locator('table tbody tr').first().click();"
        [] k = 8 ->
             "await page.getByLabel('" \o m2 \o "').fill("
               \o (IF StartsWith(m1, "{")
                   THEN JsToString(ParamName(p, 0))
                   ELSE "'" \o m1 \o "'")
               \o ");"
        [] k = 9 ->
             "await page.locator('input:focus, textarea:focus').fill("
               \o JsOr(ParamName(p, 0), "'" \o m1 \o "'") \o ");"
        [] k = 10 -> "await page.getByLabel('" \o m1 \o "').clear();"
        [] k = 11 ->
             "await page.getByLabel('" \o m2 \o "').selectOption('" \o m1 \o "');"
        [] k = 12 ->
             "await page.getByRole('option', { name: '" \o m1 \o "' }).click();"
        [] k = 13 -> "await page.getByLabel('" \o m1 \o "').check();"
        [] k = 14 -> "await page.getByLabel('" \o m1 \o "').uncheck();"
        [] k = 15 -> "await page.waitForLoadState('networkidle');"
        [] k = 16 ->
             "await page.waitForTimeout(" \o IntToString(ParseInt(m1) * 1000) \o ");"
        [] k = 17 ->
             "await page.getByText('" \o m1 \o "').waitFor({ state: 'visible' });"
        [] k = 18 -> "await expect(page.getByText('" \o m1 \o "')).toBeVisible();"
        [] k = 19 -> "await expect(page.getByText('" \o m1 \o "')).toBeVisible();"
        [] k = 20 -> "await expect(page).toHaveTitle(/" \o m1 \o "/i);"
        [] k = 21 -> "await expect(page).toHaveURL(/" \o m1 \o "/);"
        [] k = 22 ->
             "// Validate " \o m1 \o nl
               \o "await expect(page.locator('[data-testid=\""
               \o JsReplaceAll(ToLowerCase(m1), WhiteSpaceRunRe, FALSE, "-")
               \o "\"]')).toBeVisible();"
        [] k = 23 -> "await expect(page.getByText('" \o m1 \o "')).toBeVisible();"
        [] k = 24 -> "await expect(page.getByText('" \o m1 \o "')).toBeHidden();"
        [] k = 25 ->
             "await expect(page.getByLabel('" \o m1 \o "')).toHaveValue('"
               \o m2 \o "');"
        [] k = 26 ->
             "await expect(page.locator('[data-testid=\"account-details\"]')).toBeVisible();"
               \o nl \o "// Or use a more specific locator based on your app structure"
        [] k = 27 ->
             "// Login with default credentials" \o nl
               \o "await page.getByLabel('Username').fill(process.env.DEFAULT_USER || 'testuser');"
               \o nl
               \o "await page.getByLabel('Password').fill(process.env.DEFAULT_PASS || 'testpass');"
               \o nl
               \o "await page.getByRole('button', { name: /login|sign in/i }).click();"
               \o nl \o "await page.waitForLoadState('networkidle');"
        [] k = 28 ->
             "await page.getByRole('button', { name: /logout|sign out/i }).click();"
               \o nl \o "await page.waitForLoadState('networkidle');"
        [] k = 29 ->
             "await page.locator('table tbody tr').nth("
               \o IntToString(ParseInt(m1) - 1) \o ").click();"
        [] k = 30 -> "await page.locator('table tbody tr').first().click();"
        [] k = 31 ->
             "await page.evaluate(() => window.scrollTo(0, document.body.scrollHeight));"
        [] k = 32 -> "await page.evaluate(() => window.scrollTo(0, 0));"
        [] k = 33 -> "await page.keyboard.press('Enter');"
        [] k = 34 -> "await page.keyboard.press('Tab');"
        [] k = 35 -> "await page.keyboard.press('Escape');"

\* implement(matches, params) of rule k: it throws, or it returns a text
implement(k, m, p) ==
  IF ReadsParams(k, m) /\ ~p.defined
  THEN [threw |-> TRUE, text |-> Null]
  ELSE [threw |-> FALSE, text |-> implementText(k, m, p)]

\* The values matchStepPattern is applied to.  The descriptions reach every
\* rule that can be the first to match, rules that an earlier rule always
\* shadows, descriptions several rules match, and descriptions no rule
\* matches.
StepDescriptions ==
  { "user navigates to '/home'", "user goes to login",
    "user is on the login page", "user opens Account Settings page",
    "user clicks Save", "user clicks on the Submit button",
    "user clicks the Help link", "User Clicks SAVE",
    "user clicks button 'OK'", "user clicks link Home",
    "user clicks tab Details", "user clicks on an Account",
    "user clicks on row 3", "user clicks the first row",
    "user enters 'bob' in username field", "user types abc into box",
    "user enters {string} in the search field",
    "user enters {string} in the box should be visible",
    "user inputs {string} in q and sees results",
    "user fills 'x'", "user enters {string}",
    "user fills {string} should be visible",
    "user clears the name field",
    "user selects 'Red' from the color dropdown",
    "user selects the option 'Blue'", "user selects the terms checkbox",
    "user checks 'Remember me' checkbox", "user unchecks the terms checkbox",
    "user waits for the page to load", "user waits for 5 seconds",
    "user waits for 007 seconds", "user waits for the spinner to be visible",
    "user should see the text 'Welcome'", "user sees dashboard",
    "user sees the banner is displayed",
    "the page title should be 'Home'", "URL should contain /dash",
    "user validates the Account Summary tab",
    "validate Personal  Details fields",
    "the 'Save' should be visible", "error should not be displayed",
    "name should have value 'bob'", "account details should be displayed",
    "user logs in with default credentials", "user logs into app",
    "user logs out", "user scrolls to the bottom", "user scrolls to top",
    "user presses the Enter key", "user presses Tab key",
    "user presses the Escape key",
    "the system is idle", "user drags the slider", "x" }

StepParams ==
  { ParamsUndefined,
    ParamsArray(<<>>),
    ParamsArray(<<[name |-> "value", type |-> "string"]>>),
    ParamsArray(<<[name |-> "count", type |-> "number"],
                  [name |-> "field", type |-> "string"]>>) }

MatchInit ==
  /\ description \in StepDescriptions
  /\ params \in StepParams
  /\ ruleIdx = 0
  /\ matches = ReFail
  /\ caught = {}
  /\ implementation = Null
  /\ matchPc = "loop"

MatchIdle ==
  /\ description = ""
  /\ params = ParamsArray(<<>>)
  /\ ruleIdx = 0
  /\ matches = ReFail
  /\ caught = {}
  /\ implementation = Null
  /\ matchPc = "idle"

\* for (const { pattern, implement } of stepPatterns): the rule tried k-th
StepRuleAtReversed(k) == Len(stepPatterns) + 1 - k

StepRuleAt(k) == k

\* catch (e) { continue; }: where the loop stands after a generator threw
AfterThrowEscapes(idx) == [pc |-> "escaped", idx |-> idx]

AfterThrow(idx) == [pc |-> "loop", idx |-> idx + 1]

\* const matches = description.match(pattern)
MatchPattern ==
  /\ matchPc = "loop" /\ ruleIdx < Len(stepPatterns)
  /\ matches' = ReSearch(stepPatterns[StepRuleAt(ruleIdx + 1)], description, TRUE)
  /\ matchPc' = "try"
  /\ UNCHANGED <<description, params, ruleIdx, caught, implementation, notMatch>>

\* if (matches) is false: next rule
MatchRuleMiss ==
  /\ matchPc = "try"
  /\ ~matches.ok
  /\ ruleIdx' = ruleIdx + 1
  /\ matchPc' = "loop"
  /\ UNCHANGED <<description, params, matches, caught, implementation, notMatch>>

\* the pattern matches and the generator returns: return its text
MatchRuleReturn ==
  /\ matchPc = "try"
  /\ matches.ok
  /\ LET r == implement(StepRuleAt(ruleIdx + 1), matches, params)
     IN  /\ ~r.threw
         /\ implementation' = r.text
  /\ matchPc' = "returned"
  /\ UNCHANGED <<description, params, ruleIdx, matches, caught, notMatch>>

\* the pattern matches and the generator throws: caught, next rule
MatchRuleCatch ==
  /\ matchPc = "try"
  /\ matches.ok
  /\ implement(StepRuleAt(ruleIdx + 1), matches, params).threw
  /\ caught' = caught \cup {StepRuleAt(ruleIdx + 1)}
  /\ matchPc' = AfterThrow(ruleIdx).pc
  /\ ruleIdx' = AfterThrow(ruleIdx).idx
  /\ UNCHANGED <<description, params, matches, implementation, notMatch>>

\* the loop is over: return null
MatchReturnNull ==
  /\ matchPc = "loop" /\ ruleIdx = Len(stepPatterns)
  /\ implementation' = Null
  /\ matchPc' = "returned"
  /\ UNCHANGED <<description, params, ruleIdx, matches, caught, notMatch>>

MatchNext ==
  \/ MatchPattern
  \/ MatchRuleMiss
  \/ MatchRuleReturn
  \/ MatchRuleCatch
  \/ MatchReturnNull

\* ------------------------------------------------------------------------
\* Script 03: convertXPathToPlaywright, both versions in the file
\*   src/03-generate-pages.js 65-159 (first), 485-641 (second)
\* ------------------------------------------------------------------------

\* The character U+0060 (backtick) cannot be written in a TLA+ string; it
\* is written "~", a character that the scripts and the inputs here never
\* use.
Backtick == "~"

\* /^xpath\s*=\s*/
XPathPrefixRe == ReCat(<<ReBol, ReLit("xpath"), ReStar(ReWs), ReLit("="), ReStar(ReWs)>>)

\* /^["']|["']$/g
OuterQuoteRe == ReAlt(<<ReCat(<<ReBol, ReQuote>>), ReCat(<<ReQuote, ReEol>>)>>)

\* first version: xpath.replace(/^xpath\s*=\s*/, '').trim()
CleanXPathV1(x) == JsTrim(JsReplaceFirst(x, XPathPrefixRe, FALSE, ""))

\* second version: xpath.trim().replace(/^["']|["']$/g, '')
CleanXPathV2(x) == JsReplaceAll(JsTrim(x), OuterQuoteRe, FALSE, "")

\* /^\/\/(\w+)\[@id=['"]([\w-]+)['"]\]$/
idMatchV1 ==
  ReCat(<<ReBol, ReLit("//"), ReCap(1, RePlus(ReWord)), ReLit("[@id="),
  ReQuote, ReCap(2, RePlus(ReSet(WordChars \cup {"-"}))), ReQuote, ReLit("]"),
  ReEol>>)

\* /^\/\/button\[(?:text\(\)|normalize-space\(\))\s*=\s*['"](.+?)['"]\]$/
buttonTextMatchV1 ==
  ReCat(<<ReBol, ReLit("//button["), ReAlt(<<ReLit("text()"),
  ReLit("normalize-space()")>>), ReStar(ReWs), ReLit("="), ReStar(ReWs),
  ReQuote, ReCap(1, ReLazyPlus(ReDot)), ReQuote, ReLit("]"), ReEol>>)

\* /^\/\/button\[contains\((?:text\(\)|\.),\s*['"](.+?)['"]\)\]$/
buttonContainsMatchV1 ==
  ReCat(<<ReBol, ReLit("//button[contains("), ReAlt(<<ReLit("text()"),
  ReLit(".")>>), ReLit(","), ReStar(ReWs), ReQuote, ReCap(1,
  ReLazyPlus(ReDot)), ReQuote, ReLit(")]"), ReEol>>)

\* /^\/\/a\[(?:text\(\)|normalize-space\(\))\s*=\s*['"](.+?)['"]\]$/
linkTextMatchV1 ==
  ReCat(<<ReBol, ReLit("//a["), ReAlt(<<ReLit("text()"),
  ReLit("normalize-space()")>>), ReStar(ReWs), ReLit("="), ReStar(ReWs),
  ReQuote, ReCap(1, ReLazyPlus(ReDot)), ReQuote, ReLit("]"), ReEol>>)

\* /^\/\/input\[@placeholder=['"](.*?)['"]\]$/
placeholderMatchV1 ==
  ReCat(<<ReBol, ReLit("//input[@placeholder="), ReQuote, ReCap(1,
  ReLazyStar(ReDot)), ReQuote, ReLit("]"), ReEol>>)

\* /^\/\/label\[(?:text\(\)|normalize-space\(\))\s*=\s*['"](.+?)['"]\]\/following-sibling::input/
labelSiblingMatchV1 ==
  ReCat(<<ReBol, ReLit("//label["), ReAlt(<<ReLit("text()"),
  ReLit("normalize-space()")>>), ReStar(ReWs), ReLit("="), ReStar(ReWs),
  ReQuote, ReCap(1, ReLazyPlus(ReDot)), ReQuote,
  ReLit("]/following-sibling::input")>>)

\* /^\/\/\w+\[@data-testid=['"]([\w-]+)['"]\]$/
testIdMatchV1 ==
  ReCat(<<ReBol, ReLit("//"), RePlus(ReWord), ReLit("[@data-testid="),
  ReQuote, ReCap(1, RePlus(ReSet(WordChars \cup {"-"}))), ReQuote, ReLit("]"),
  ReEol>>)

\* /^\/\/(\w+)\[@class=['"]([\w\s-]+)['"]\]$/
classMatchV1 ==
  ReCat(<<ReBol, ReLit("//"), ReCap(1, RePlus(ReWord)), ReLit("[@class="),
  ReQuote, ReCap(2, RePlus(ReSet(WordChars \cup WhiteSpace \cup {"-"}))),
  ReQuote, ReLit("]"), ReEol>>)

\* /^\/\/(\w+)\[contains\(@class,\s*['"](.+?)['"]\)\]$/
classContainsMatchV1 ==
  ReCat(<<ReBol, ReLit("//"), ReCap(1, RePlus(ReWord)),
  ReLit("[contains(@class,"), ReStar(ReWs), ReQuote, ReCap(2,
  ReLazyPlus(ReDot)), ReQuote, ReLit(")]"), ReEol>>)

\* /^\/\/select\[@(?:id|name)=['"]([\w-]+)['"]\]$/
selectMatchV1 ==
  ReCat(<<ReBol, ReLit("//select[@"), ReAlt(<<ReLit("id"), ReLit("name")>>),
  ReLit("="), ReQuote, ReCap(1, RePlus(ReSet(WordChars \cup {"-"}))), ReQuote,
  ReLit("]"), ReEol>>)

\* /^\/\/table\[@id=['"]([\w-]+)['"]\]$/
tableMatchV1 ==
  ReCat(<<ReBol, ReLit("//table[@id="), ReQuote, ReCap(1,
  RePlus(ReSet(WordChars \cup {"-"}))), ReQuote, ReLit("]"), ReEol>>)

\* The rules of convertXPathToPlaywright (first version) in the order tried
XPathRulesV1 ==
  <<idMatchV1, buttonTextMatchV1, buttonContainsMatchV1, linkTextMatchV1,
  placeholderMatchV1, labelSiblingMatchV1, testIdMatchV1, classMatchV1,
  classContainsMatchV1, selectMatchV1, tableMatchV1>>

\* /^\/\/button\[(?:text\(\)|normalize-space\(\)|\.)\s*=\s*['"](.+?)['"]\]$/
buttonTextExact ==
  ReCat(<<ReBol, ReLit("//button["), ReAlt(<<ReLit("text()"),
  ReLit("normalize-space()"), ReLit(".")>>), ReStar(ReWs), ReLit("="),
  ReStar(ReWs), ReQuote, ReCap(1, ReLazyPlus(ReDot)), ReQuote, ReLit("]"),
  ReEol>>)

\* /^\/\/button\[contains\((?:text\(\)|\.),\s*['"](.+?)['"]\)\]$/
buttonTextContains ==
  ReCat(<<ReBol, ReLit("//button[contains("), ReAlt(<<ReLit("text()"),
  ReLit(".")>>), ReLit(","), ReStar(ReWs), ReQuote, ReCap(1,
  ReLazyPlus(ReDot)), ReQuote, ReLit(")]"), ReEol>>)

\* /^\/\/a\[(?:text\(\)|normalize-space\(\)|\.)\s*=\s*['"](.+?)['"]\]$/
linkTextExact ==
  ReCat(<<ReBol, ReLit("//a["), ReAlt(<<ReLit("text()"),
  ReLit("normalize-space()"), ReLit(".")>>), ReStar(ReWs), ReLit("="),
  ReStar(ReWs), ReQuote, ReCap(1, ReLazyPlus(ReDot)), ReQuote, ReLit("]"),
  ReEol>>)

\* /^\/\/a\[contains\((?:text\(\)|\.),\s*['"](.+?)['"]\)\]$/
linkTextContains ==
  ReCat(<<ReBol, ReLit("//a[contains("), ReAlt(<<ReLit("text()"),
  ReLit(".")>>), ReLit(","), ReStar(ReWs), ReQuote, ReCap(1,
  ReLazyPlus(ReDot)), ReQuote, ReLit(")]"), ReEol>>)

\* /^\/\/input\[@id\s*=\s*['"](.+?)['"]\]$/
inputById ==
  ReCat(<<ReBol, ReLit("//input[@id"), ReStar(ReWs), ReLit("="), ReStar(ReWs),
  ReQuote, ReCap(1, ReLazyPlus(ReDot)), ReQuote, ReLit("]"), ReEol>>)

\* /^\/\/input\[@placeholder\s*=\s*['"](.+?)['"]\]$/
inputByPlaceholder ==
  ReCat(<<ReBol, ReLit("//input[@placeholder"), ReStar(ReWs), ReLit("="),
  ReStar(ReWs), ReQuote, ReCap(1, ReLazyPlus(ReDot)), ReQuote, ReLit("]"),
  ReEol>>)

\* /^\/\/(\w+)\[@id\s*=\s*['"](.+?)['"]\]$/
anyById ==
  ReCat(<<ReBol, ReLit("//"), ReCap(1, RePlus(ReWord)), ReLit("[@id"),
  ReStar(ReWs), ReLit("="), ReStar(ReWs), ReQuote, ReCap(2,
  ReLazyPlus(ReDot)), ReQuote, ReLit("]"), ReEol>>)

\* /^\/\/\w+\[@data-testid\s*=\s*['"](.+?)['"]\]$/
byTestId ==
  ReCat(<<ReBol, ReLit("//"), RePlus(ReWord), ReLit("[@data-testid"),
  ReStar(ReWs), ReLit("="), ReStar(ReWs), ReQuote, ReCap(1,
  ReLazyPlus(ReDot)), ReQuote, ReLit("]"), ReEol>>)

\* /^\/\/(\w+)\[@class\s*=\s*['"](.+?)['"]\]$/
byClassExact ==
  ReCat(<<ReBol, ReLit("//"), ReCap(1, RePlus(ReWord)), ReLit("[@class"),
  ReStar(ReWs), ReLit("="), ReStar(ReWs), ReQuote, ReCap(2,
  ReLazyPlus(ReDot)), ReQuote, ReLit("]"), ReEol>>)

\* /^\/\/(\w+)\[contains\(@class,\s*['"](.+?)['"]\)\]$/
byClassContains ==
  ReCat(<<ReBol, ReLit("//"), ReCap(1, RePlus(ReWord)),
  ReLit("[contains(@class,"), ReStar(ReWs), ReQuote, ReCap(2,
  ReLazyPlus(ReDot)), ReQuote, ReLit(")]"), ReEol>>)

\* /^\/\/\*\[(?:text\(\)|\.)\s*=\s*['"](.+?)['"]\]$/
anyTextExact ==
  ReCat(<<ReBol, ReLit("//*["), ReAlt(<<ReLit("text()"), ReLit(".")>>),
  ReStar(ReWs), ReLit("="), ReStar(ReWs), ReQuote, ReCap(1,
  ReLazyPlus(ReDot)), ReQuote, ReLit("]"), ReEol>>)

\* /^\/\/\*\[contains\((?:text\(\)|\.),\s*['"](.+?)['"]\)\]$/
anyTextContains ==
  ReCat(<<ReBol, ReLit("//*[contains("), ReAlt(<<ReLit("text()"),
  ReLit(".")>>), ReLit(","), ReStar(ReWs), ReQuote, ReCap(1,
  ReLazyPlus(ReDot)), ReQuote, ReLit(")]"), ReEol>>)

\* /^\/\/(\w+)\[(?:text\(\)|\.)\s*=\s*['"](.+?)['"]\]$/
elementTextExact ==
  ReCat(<<ReBol, ReLit("//"), ReCap(1, RePlus(ReWord)), ReLit("["),
  ReAlt(<<ReLit("text()"), ReLit(".")>>), ReStar(ReWs), ReLit("="),
  ReStar(ReWs), ReQuote, ReCap(2, ReLazyPlus(ReDot)), ReQuote, ReLit("]"),
  ReEol>>)

\* /^\/\/(\w+)\[contains\((?:text\(\)|\.),\s*['"](.+?)['"]\)\]$/
elementTextContains ==
  ReCat(<<ReBol, ReLit("//"), ReCap(1, RePlus(ReWord)), ReLit("[contains("),
  ReAlt(<<ReLit("text()"), ReLit(".")>>), ReLit(","), ReStar(ReWs), ReQuote,
  ReCap(2, ReLazyPlus(ReDot)), ReQuote, ReLit(")]"), ReEol>>)

\* /^\/\/select\[@(?:id|name)\s*=\s*['"](.+?)['"]\]$/
selectMatch ==
  ReCat(<<ReBol, ReLit("//select[@"), ReAlt(<<ReLit("id"), ReLit("name")>>),
  ReStar(ReWs), ReLit("="), ReStar(ReWs), ReQuote, ReCap(1,
  ReLazyPlus(ReDot)), ReQuote, ReLit("]"), ReEol>>)

\* /^\/\/th\[@aria-colindex\s*=\s*['"](\d+)['"]\]\/\/a$/
thAriaColIndex ==
  ReCat(<<ReBol, ReLit("//th[@aria-colindex"), ReStar(ReWs), ReLit("="),
  ReStar(ReWs), ReQuote, ReCap(1, RePlus(ReDigit)), ReQuote, ReLit("]//a"),
  ReEol>>)

\* /^\/\/table(?:\/\/|\/)tr\[(\d+)\]\/td\[(\d+)\]/
tableCellMatch ==
  ReCat(<<ReBol, ReLit("//table"), ReAlt(<<ReLit("//"), ReLit("/")>>),
  ReLit("tr["), ReCap(1, RePlus(ReDigit)), ReLit("]/td["), ReCap(2,
  RePlus(ReDigit)), ReLit("]")>>)

\* The rules of convertXPathToPlaywright (second version) in the order tried
XPathRulesV2 ==
  <<buttonTextExact, buttonTextContains, linkTextExact, linkTextContains,
  inputById, inputByPlaceholder, anyById, byTestId, byClassExact,
  byClassContains, anyTextExact, anyTextContains, elementTextExact,
  elementTextContains, selectMatch, thAriaColIndex, tableCellMatch>>

XPathResult(locator, type, needsReview, comment, original) ==
  [locator |-> locator, type |-> type, needsReview |-> needsReview,
   comment |-> comment, originalXpath |-> original]

NoXPathResult == XPathResult("", "", FALSE, Null, "")

\* What the first version returns when rule k matched with m.  Its result
\* has no type and no comment.
XPathGenerateV1(k, m, original) ==
  LET m1 == m.c[1]
      m2 == m.c[2]
      loc ==
        CASE k = 1 -> "page.locator('#" \o m2 \o "')"
          [] k = 2 -> "page.getByRole('button', { name: '" \o m1 \o "' })"
          [] k = 3 -> "page.getByRole('button', { name: /" \o m1 \o "/i })"
          [] k = 4 -> "page.getByRole('link', { name: '" \o m1 \o "' })"
          [] k = 5 -> "page.getByPlaceholder('" \o m1 \o "')"
          [] k = 6 -> "page.getByLabel('" \o m1 \o "')"
          [] k = 7 -> "page.getByTestId('" \o m1 \o "')"
          [] k = 8 -> "page.locator('" \o m1 \o "."
                        \o JsJoin(JsSplitRe(m2, WhiteSpaceRunRe), ".") \o "')"
          [] k = 9 -> "page.locator('" \o m1 \o "[class*=\"" \o m2 \o "\"]')"
          [] k = 10 -> "page.locator('#" \o m1 \o "')"
          [] k = 11 -> "page.locator('#" \o m1 \o "')"
  IN  XPathResult(loc, Undefined, k = 10, Undefined, original)

\* The length the first version's fallback cuts the expression to
FallbackCutV1 == 50

\* first version, no rule matched
XPathFallbackV1(x, original) ==
  XPathResult("page.locator('/* TODO: Convert XPath: "
                \o JsSubstring(x, 0, FallbackCutV1) \o "... */')",
              Undefined, TRUE, Undefined, original)

\* What the second version returns when rule k matched with m.  Its
\* result has no needsReview (undefined, which reads as false).
XPathGenerateV2(k, m, original) ==
  LET m1 == m.c[1]
      m2 == m.c[2]
      loc ==
        CASE k = 1 -> "page.getByRole('button', { name: '" \o m1 \o "' })"
          [] k = 2 -> "page.getByRole('button', { name: /" \o m1 \o "/i })"
          [] k = 3 -> "page.getByRole('link', { name: '" \o m1 \o "' })"
          [] k = 4 -> "page.getByRole('link', { name: /" \o m1 \o "/i })"
          [] k = 5 -> "page.locator('#" \o m1 \o "')"
          [] k = 6 -> "page.getByPlaceholder('" \o m1 \o "')"
          [] k = 7 -> "page.locator('#" \o m2 \o "')"
          [] k = 8 -> "page.getByTestId('" \o m1 \o "')"
          [] k = 9 -> "page.locator('" \o m1 \o "."
                        \o JsJoin(JsSplitRe(JsTrim(m2), WhiteSpaceRunRe), ".")
                        \o "')"
          [] k = 10 -> "page.locator('" \o m1 \o "[class*=\"" \o m2 \o "\"]')"
          [] k = 11 -> "page.getByText('" \o m1 \o "', { exact: true })"
          [] k = 12 -> "page.getByText('" \o m1 \o "')"
          [] k = 13 -> "page.locator('" \o m1 \o "').filter({ hasText: '"
                         \o m2 \o "' })"
          [] k = 14 -> "page.locator('" \o m1 \o "').filter({ hasText: /"
                         \o m2 \o "/i })"
          [] k = 15 -> "page.locator('select#" \o m1 \o "')"
          [] k = 16 -> "page.locator('th[aria-colindex=\"" \o m1 \o "\"] a')"
          [] k = 17 -> "page.locator('table tr:nth-child(" \o m1
                         \o ") td:nth-child(" \o m2 \o ")')"
      type == IF k \in {1, 2, 3, 4, 6, 8, 11, 12} THEN "semantic" ELSE "css"
  IN  XPathResult(loc, type, FALSE, Null, original)

\* xpath.replace(/`/g, '\\`').replace(/\$/g, '\\$')
EscapeXPath(x) ==
  MapChars(x, [c \in {Backtick, "$"} |-> "\\" \o c])

\* second version, no rule matched
XPathFallbackV2(x, original) ==
  XPathResult("page.locator(" \o Backtick \o EscapeXPath(x) \o Backtick \o ")",
              "xpath", FALSE, "XPath preserved - consider manual review",
              original)

\* The XPath expressions the converters are applied to: a step, a
\* predicate and a tail, bare or wrapped as they stand in Java sources,
\* and expressions longer than FallbackCutV1 characters.
XPathTags == {"button", "a", "input", "select", "div", "*"}

XPathPredicates ==
  { "[text()='Save']", "[normalize-space()='Save']", "[.=\"Save\"]",
    "[contains(text(),'Save')]", "[contains(.,'Sa$ve')]",
    "[@id='main-btn']", "[@id = 'x.y']", "[@placeholder='Name']",
    "[@data-testid='t-1']", "[@class='btn  primary']", "[@class=' btn']",
    "[contains(@class,'btn')]", "[@name='color']",
    "[text()='a' or text()='b']", "[@type='submit']" }

XPathTails == {"", "//span", "/following-sibling::input"}

XPathWraps == { <<"", "">>, <<"xpath=", "">>, <<" ", " ">>, <<"'", "'">> }

XPathArgs ==
  { w[1] \o "//" \o t \o p \o s \o w[2] :
      t \in XPathTags, p \in XPathPredicates, s \in XPathTails, w \in XPathWraps }
  \cup
  { "//th[@aria-colindex='2']//a", "//table//tr[2]/td[3]",
    "//table/tr[1]/td[1]/a", "//table[@id='grid']",
    "//label[text()='Name']/following-sibling::input",
    "//div[@id='main']//ul[@class='nav']/li[3]/a[contains(@href,'settings')]",
    "//div[@id='content']/descendant::span[@class='price'][position()=last()]",
    "//div[@title=~x~]", "(//input)[1]", "//a[@href='$5']" }

XPathInit ==
  /\ xpathArg \in XPathArgs
  /\ xpVersion \in {1, 2}
  /\ xpath = xpathArg
  /\ xpRule = 0
  /\ xpMatch = ReFail
  /\ xpResult = NoXPathResult
  /\ xpPc = "clean"

XPathIdle ==
  /\ xpathArg = ""
  /\ xpVersion = 2
  /\ xpath = ""
  /\ xpRule = 0
  /\ xpMatch = ReFail
  /\ xpResult = NoXPathResult
  /\ xpPc = "idle"

XPathRules == IF xpVersion = 1 THEN XPathRulesV1 ELSE XPathRulesV2

\* The order the rules are tried in: the order of the if statements
XPathRuleAtReversed(k) == Len(XPathRules) + 1 - k

XPathRuleAt(k) == k

\* result.originalXpath: the first version builds the result before it
\* cleans the argument, the second after
OriginalXPath == IF xpVersion = 1 THEN xpathArg ELSE xpath

\* the cleaning statement at the head of the function
XPathClean ==
  /\ xpPc = "clean"
  /\ xpath' = IF xpVersion = 1 THEN CleanXPathV1(xpathArg)
              ELSE CleanXPathV2(xpathArg)
  /\ xpPc' = "rules"
  /\ UNCHANGED <<xpathArg, xpVersion, xpRule, xpMatch, xpResult, notXPath>>

\* const m = xpath.match(...)
XPathMatch ==
  /\ xpPc = "rules" /\ xpRule < Len(XPathRules)
  /\ xpMatch' = ReSearch(XPathRules[XPathRuleAt(xpRule + 1)], xpath, FALSE)
  /\ xpPc' = "try"
  /\ UNCHANGED <<xpathArg, xpVersion, xpath, xpRule, xpResult, notXPath>>

\* if (m) is false: on to the next rule
XPathRuleMiss ==
  /\ xpPc = "try"
  /\ ~xpMatch.ok
  /\ xpRule' = xpRule + 1
  /\ xpPc' = "rules"
  /\ UNCHANGED <<xpathArg, xpVersion, xpath, xpMatch, xpResult, notXPath>>

\* if (m) { result.locator = ...; return result; }
XPathRuleReturn ==
  /\ xpPc = "try"
  /\ xpMatch.ok
  /\ xpResult' =
       IF xpVersion = 1
       THEN XPathGenerateV1(XPathRuleAt(xpRule + 1), xpMatch, OriginalXPath)
       ELSE XPathGenerateV2(XPathRuleAt(xpRule + 1), xpMatch, OriginalXPath)
  /\ xpPc' = "returned"
  /\ UNCHANGED <<xpathArg, xpVersion, xpath, xpRule, xpMatch, notXPath>>

\* no rule matched: the fallback
XPathFallback ==
  /\ xpPc = "rules" /\ xpRule = Len(XPathRules)
  /\ xpResult' = IF xpVersion = 1 THEN XPathFallbackV1(xpath, OriginalXPath)
                 ELSE XPathFallbackV2(xpath, OriginalXPath)
  /\ xpPc' = "returned"
  /\ UNCHANGED <<xpathArg, xpVersion, xpath, xpRule, xpMatch, notXPath>>

XPathNext ==
  \/ XPathClean
  \/ XPathMatch
  \/ XPathRuleMiss
  \/ XPathRuleReturn
  \/ XPathFallback

\* line 170: /public\s+class\s+(\w+)/
classNameReV1 ==
  ReCat(<<ReLit("public"), RePlus(ReWs), ReLit("class"), RePlus(ReWs),
  ReCap(1, RePlus(ReWord))>>)

\* line 176: /@FindBy\s*\(\s*xpath\s*=\s*"(.+?)"\s*\)\s*(?:private|public|protected)?\s*(?:WebElement|QAFWebElement)\s+(\w+)/g
findByXPathRegexV1 ==
  ReCat(<<ReLit("@FindBy"), ReStar(ReWs), ReLit("("), ReStar(ReWs),
  ReLit("xpath"), ReStar(ReWs), ReLit("="), ReStar(ReWs), ReLit("\""),
  ReCap(1, ReLazyPlus(ReDot)), ReLit("\""), ReStar(ReWs), ReLit(")"),
  ReStar(ReWs), ReOpt(ReAlt(<<ReLit("private"), ReLit("public"),
  ReLit("protected")>>)), ReStar(ReWs), ReAlt(<<ReLit("WebElement"),
  ReLit("QAFWebElement")>>), RePlus(ReWs), ReCap(2, RePlus(ReWord))>>)

\* line 189: /@FindBy\s*\(\s*id\s*=\s*"(.+?)"\s*\)\s*(?:private|public|protected)?\s*(?:WebElement|QAFWebElement)\s+(\w+)/g
findByIdRegexV1 ==
  ReCat(<<ReLit("@FindBy"), ReStar(ReWs), ReLit("("), ReStar(ReWs),
  ReLit("id"), ReStar(ReWs), ReLit("="), ReStar(ReWs), ReLit("\""), ReCap(1,
  ReLazyPlus(ReDot)), ReLit("\""), ReStar(ReWs), ReLit(")"), ReStar(ReWs),
  ReOpt(ReAlt(<<ReLit("private"), ReLit("public"), ReLit("protected")>>)),
  ReStar(ReWs), ReAlt(<<ReLit("WebElement"), ReLit("QAFWebElement")>>),
  RePlus(ReWs), ReCap(2, RePlus(ReWord))>>)

\* line 200: /@FindBy\s*\(\s*css\s*=\s*"(.+?)"\s*\)\s*(?:private|public|protected)?\s*(?:WebElement|QAFWebElement)\s+(\w+)/g
findByCssRegexV1 ==
  ReCat(<<ReLit("@FindBy"), ReStar(ReWs), ReLit("("), ReStar(ReWs),
  ReLit("css"), ReStar(ReWs), ReLit("="), ReStar(ReWs), ReLit("\""), ReCap(1,
  ReLazyPlus(ReDot)), ReLit("\""), ReStar(ReWs), ReLit(")"), ReStar(ReWs),
  ReOpt(ReAlt(<<ReLit("private"), ReLit("public"), ReLit("protected")>>)),
  ReStar(ReWs), ReAlt(<<ReLit("WebElement"), ReLit("QAFWebElement")>>),
  RePlus(ReWs), ReCap(2, RePlus(ReWord))>>)

\* line 655: /(?:public\s+)?class\s+(\w+)(?:\s+extends\s+\w+)?/
classNameRe ==
  ReCat(<<ReOpt(ReCat(<<ReLit("public"), RePlus(ReWs)>>)), ReLit("class"),
  RePlus(ReWs), ReCap(1, RePlus(ReWord)), ReOpt(ReCat(<<RePlus(ReWs),
  ReLit("extends"), RePlus(ReWs), RePlus(ReWord)>>))>>)

\* line 663: /(?:public\s+)?static\s+final\s+By\s+(\w+)\s*=\s*By\.xpath\s*\(\s*xpathExpression\s*:\s*"([^"]+)"\s*\)/g
qafXpathRegex ==
  ReCat(<<ReOpt(ReCat(<<ReLit("public"), RePlus(ReWs)>>)), ReLit("static"),
  RePlus(ReWs), ReLit("final"), RePlus(ReWs), ReLit("By"), RePlus(ReWs),
  ReCap(1, RePlus(ReWord)), ReStar(ReWs), ReLit("="), ReStar(ReWs),
  ReLit("By.xpath"), ReStar(ReWs), ReLit("("), ReStar(ReWs),
  ReLit("xpathExpression"), ReStar(ReWs), ReLit(":"), ReStar(ReWs),
  ReLit("\""), ReCap(2, RePlus(ReNotSet({"\""}))), ReLit("\""), ReStar(ReWs),
  ReLit(")")>>)

\* line 684: /(?:public\s+)?static\s+final\s+By\s+(\w+)\s*=\s*By\.xpath\s*\(\s*xpathExpression\s*:\s*'([^']+)'\s*\)/g
qafXpathRegex2 ==
  ReCat(<<ReOpt(ReCat(<<ReLit("public"), RePlus(ReWs)>>)), ReLit("static"),
  RePlus(ReWs), ReLit("final"), RePlus(ReWs), ReLit("By"), RePlus(ReWs),
  ReCap(1, RePlus(ReWord)), ReStar(ReWs), ReLit("="), ReStar(ReWs),
  ReLit("By.xpath"), ReStar(ReWs), ReLit("("), ReStar(ReWs),
  ReLit("xpathExpression"), ReStar(ReWs), ReLit(":"), ReStar(ReWs),
  ReLit("'"), ReCap(2, RePlus(ReNotSet({"'"}))), ReLit("'"), ReStar(ReWs),
  ReLit(")")>>)

\* line 705: /(?:public\s+)?static\s+final\s+By\s+(\w+)\s*=\s*By\.xpath\s*\(\s*["'](.+?)["']\s*\)/g
simpleXpathRegex ==
  ReCat(<<ReOpt(ReCat(<<ReLit("public"), RePlus(ReWs)>>)), ReLit("static"),
  RePlus(ReWs), ReLit("final"), RePlus(ReWs), ReLit("By"), RePlus(ReWs),
  ReCap(1, RePlus(ReWord)), ReStar(ReWs), ReLit("="), ReStar(ReWs),
  ReLit("By.xpath"), ReStar(ReWs), ReLit("("), ReStar(ReWs), ReQuote, ReCap(2,
  ReLazyPlus(ReDot)), ReQuote, ReStar(ReWs), ReLit(")")>>)

\* line 727: /@FindBy\s*\(\s*xpath\s*=\s*["'](.+?)["']\s*\)\s*(?:private|public|protected)?\s*(?:WebElement|QAFWebElement)\s+(\w+)/g
findByXPathRegex ==
  ReCat(<<ReLit("@FindBy"), ReStar(ReWs), ReLit("("), ReStar(ReWs),
  ReLit("xpath"), ReStar(ReWs), ReLit("="), ReStar(ReWs), ReQuote, ReCap(1,
  ReLazyPlus(ReDot)), ReQuote, ReStar(ReWs), ReLit(")"), ReStar(ReWs),
  ReOpt(ReAlt(<<ReLit("private"), ReLit("public"), ReLit("protected")>>)),
  ReStar(ReWs), ReAlt(<<ReLit("WebElement"), ReLit("QAFWebElement")>>),
  RePlus(ReWs), ReCap(2, RePlus(ReWord))>>)

\* line 745: /@FindBy\s*\(\s*id\s*=\s*["'](.+?)["']\s*\)\s*(?:private|public|protected)?\s*(?:WebElement|QAFWebElement)\s+(\w+)/g
findByIdRegex ==
  ReCat(<<ReLit("@FindBy"), ReStar(ReWs), ReLit("("), ReStar(ReWs),
  ReLit("id"), ReStar(ReWs), ReLit("="), ReStar(ReWs), ReQuote, ReCap(1,
  ReLazyPlus(ReDot)), ReQuote, ReStar(ReWs), ReLit(")"), ReStar(ReWs),
  ReOpt(ReAlt(<<ReLit("private"), ReLit("public"), ReLit("protected")>>)),
  ReStar(ReWs), ReAlt(<<ReLit("WebElement"), ReLit("QAFWebElement")>>),
  RePlus(ReWs), ReCap(2, RePlus(ReWord))>>)

\* line 757: /@FindBy\s*\(\s*css\s*=\s*["'](.+?)["']\s*\)\s*(?:private|public|protected)?\s*(?:WebElement|QAFWebElement)\s+(\w+)/g
findByCssRegex ==
  ReCat(<<ReLit("@FindBy"), ReStar(ReWs), ReLit("("), ReStar(ReWs),
  ReLit("css"), ReStar(ReWs), ReLit("="), ReStar(ReWs), ReQuote, ReCap(1,
  ReLazyPlus(ReDot)), ReQuote, ReStar(ReWs), ReLit(")"), ReStar(ReWs),
  ReOpt(ReAlt(<<ReLit("private"), ReLit("public"), ReLit("protected")>>)),
  ReStar(ReWs), ReAlt(<<ReLit("WebElement"), ReLit("QAFWebElement")>>),
  RePlus(ReWs), ReCap(2, RePlus(ReWord))>>)

\* line 769: /public\s+(?:void|boolean|String|int|WebElement|List<\w+>|\w+)\s+(\w+)\s*\(([^)]*)\)/g
methodRegex ==
  ReCat(<<ReLit("public"), RePlus(ReWs), ReAlt(<<ReLit("void"),
  ReLit("boolean"), ReLit("String"), ReLit("int"), ReLit("WebElement"),
  ReCat(<<ReLit("List<"), RePlus(ReWord), ReLit(">")>>), RePlus(ReWord)>>),
  RePlus(ReWs), ReCap(1, RePlus(ReWord)), ReStar(ReWs), ReLit("("), ReCap(2,
  ReStar(ReNotSet({")"}))), ReLit(")")>>)

\* line 778: /^(get|set|is)[A-Z]/
accessorRe ==
  ReCat(<<ReBol, ReCap(1, ReAlt(<<ReLit("get"), ReLit("set"), ReLit("is")>>)),
  ReSet(UpperChars)>>)

\* line 795: /Page$/
pageSuffixRe ==
  ReCat(<<ReLit("Page"), ReEol>>)

\* line 81: /(\w+)\.click\(\)/
clickLocatorRe ==
  ReCat(<<ReCap(1, RePlus(ReWord)), ReLit(".click()")>>)

\* line 98: /(\w+)\.doubleClick\(\)/i
doubleClickLocatorRe ==
  ReCat(<<ReCap(1, RePlus(ReWord)), ReLit(".doubleClick()")>>)

\* line 107: /(\w+)\.contextClick\(\)/i
contextClickLocatorRe ==
  ReCat(<<ReCap(1, RePlus(ReWord)), ReLit(".contextClick()")>>)

\* line 117: /(\w+)\.(?:sendKeys|clear)\(/i
sendKeysLocatorRe ==
  ReCat(<<ReCap(1, RePlus(ReWord)), ReLit("."), ReAlt(<<ReLit("sendKeys"),
  ReLit("clear")>>), ReLit("(")>>)

\* line 138: /(\w+)\.getText\(\)/i
getTextLocatorRe ==
  ReCat(<<ReCap(1, RePlus(ReWord)), ReLit(".getText()")>>)

\* line 152: /\.getAttribute\s*\(\s*["'](\w+)["']\s*\)/i
attrMatchRe ==
  ReCat(<<ReLit(".getAttribute"), ReStar(ReWs), ReLit("("), ReStar(ReWs),
  ReQuote, ReCap(1, RePlus(ReWord)), ReQuote, ReStar(ReWs), ReLit(")")>>)

\* line 153: /(\w+)\.getAttribute/i
getAttributeLocatorRe ==
  ReCat(<<ReCap(1, RePlus(ReWord)), ReLit(".getAttribute")>>)

\* line 163: /visibilityOf(?:Element)?(?:Located)?\s*\(\s*(\w+)\s*\)/i
visibilityOfRe ==
  ReCat(<<ReLit("visibilityOf"), ReOpt(ReLit("Element")),
  ReOpt(ReLit("Located")), ReStar(ReWs), ReLit("("), ReStar(ReWs), ReCap(1,
  RePlus(ReWord)), ReStar(ReWs), ReLit(")")>>)

\* line 170: /elementToBeClickable\s*\(\s*(\w+)\s*\)/i
clickableRe ==
  ReCat(<<ReLit("elementToBeClickable"), ReStar(ReWs), ReLit("("),
  ReStar(ReWs), ReCap(1, RePlus(ReWord)), ReStar(ReWs), ReLit(")")>>)

\* line 175: /invisibilityOf\s*\(\s*(\w+)\s*\)/i
invisibilityOfRe ==
  ReCat(<<ReLit("invisibilityOf"), ReStar(ReWs), ReLit("("), ReStar(ReWs),
  ReCap(1, RePlus(ReWord)), ReStar(ReWs), ReLit(")")>>)

\* line 189: /new\s+Select\s*\(\s*(\w+)\s*\)/i
newSelectRe ==
  ReCat(<<ReLit("new"), RePlus(ReWs), ReLit("Select"), ReStar(ReWs),
  ReLit("("), ReStar(ReWs), ReCap(1, RePlus(ReWord)), ReStar(ReWs),
  ReLit(")")>>)

\* line 190: /(\w+)\.selectBy/i
selectByRe ==
  ReCat(<<ReCap(1, RePlus(ReWord)), ReLit(".selectBy")>>)

\* line 214: /(\w+)\.(?:click|isSelected)/i
checkboxLocatorRe ==
  ReCat(<<ReCap(1, RePlus(ReWord)), ReLit("."), ReAlt(<<ReLit("click"),
  ReLit("isSelected")>>)>>)

\* line 230: /(\w+)\.isDisplayed\(\)/i
isDisplayedLocatorRe ==
  ReCat(<<ReCap(1, RePlus(ReWord)), ReLit(".isDisplayed()")>>)

\* line 244: /(\w+)\.isEnabled\(\)/i
isEnabledLocatorRe ==
  ReCat(<<ReCap(1, RePlus(ReWord)), ReLit(".isEnabled()")>>)

\* line 254: /moveToElement\s*\(\s*(\w+)\s*\)/i
moveToElementRe ==
  ReCat(<<ReLit("moveToElement"), ReStar(ReWs), ReLit("("), ReStar(ReWs),
  ReCap(1, RePlus(ReWord)), ReStar(ReWs), ReLit(")")>>)

\* line 268: /scrollIntoView[^(]*\(\s*(\w+)\s*\)/i
scrollArgRe ==
  ReCat(<<ReLit("scrollIntoView"), ReStar(ReNotSet({"("})), ReLit("("),
  ReStar(ReWs), ReCap(1, RePlus(ReWord)), ReStar(ReWs), ReLit(")")>>)

\* line 269: /(\w+)[^.]*\.scrollIntoView/i
scrollReceiverRe ==
  ReCat(<<ReCap(1, RePlus(ReWord)), ReStar(ReNotSet({"."})),
  ReLit(".scrollIntoView")>>)

\* line 282: /\.get\s*\(\s*["']([^"']+)["']\s*\)/i
urlMatchRe ==
  ReCat(<<ReLit(".get"), ReStar(ReWs), ReLit("("), ReStar(ReWs), ReQuote,
  ReCap(1, RePlus(ReNotSet({"\"", "'"}))), ReQuote, ReStar(ReWs),
  ReLit(")")>>)

\* line 296: /frame\s*\(\s*["']([^"']+)["']\s*\)/i
frameQuotedRe ==
  ReCat(<<ReLit("frame"), ReStar(ReWs), ReLit("("), ReStar(ReWs), ReQuote,
  ReCap(1, RePlus(ReNotSet({"\"", "'"}))), ReQuote, ReStar(ReWs),
  ReLit(")")>>)

\* line 297: /frame\s*\(\s*(\w+)\s*\)/i
frameWordRe ==
  ReCat(<<ReLit("frame"), ReStar(ReWs), ReLit("("), ReStar(ReWs), ReCap(1,
  RePlus(ReWord)), ReStar(ReWs), ReLit(")")>>)

\* line 317: /(\w+)\.size\(\)/i
sizeLocatorRe ==
  ReCat(<<ReCap(1, RePlus(ReWord)), ReLit(".size()")>>)

\* line 318: /(\w+)\.findElements/i
findElementsLocatorRe ==
  ReCat(<<ReCap(1, RePlus(ReWord)), ReLit(".findElements")>>)

\* line 341: /(\w+)\.clear\(\)/i
clearLocatorRe ==
  ReCat(<<ReCap(1, RePlus(ReWord)), ReLit(".clear()")>>)

\* line 351: /Keys\.(\w+)/i
keyMatchRe ==
  ReCat(<<ReLit("Keys."), ReCap(1, RePlus(ReWord))>>)

\* line 367: /(\w+)\.focus\(\)/i
focusLocatorRe ==
  ReCat(<<ReCap(1, RePlus(ReWord)), ReLit(".focus()")>>)

\* line 376: /(\w+)\.blur\(\)/i
blurLocatorRe ==
  ReCat(<<ReCap(1, RePlus(ReWord)), ReLit(".blur()")>>)

\* line 396: /^(click|enter|type|get|set|verify|validate|check|select|wait|hover)/i
namePrefixRe ==
  ReCat(<<ReBol, ReCap(1, ReAlt(<<ReLit("click"), ReLit("enter"),
  ReLit("type"), ReLit("get"), ReLit("set"), ReLit("verify"),
  ReLit("validate"), ReLit("check"), ReLit("select"), ReLit("wait"),
  ReLit("hover")>>))>>)

\* line 397: /(Button|Link|Text|Field|Input|Checkbox|Dropdown|Element)$/i
nameSuffixRe ==
  ReCat(<<ReCap(1, ReAlt(<<ReLit("Button"), ReLit("Link"), ReLit("Text"),
  ReLit("Field"), ReLit("Input"), ReLit("Checkbox"), ReLit("Dropdown"),
  ReLit("Element")>>)), ReEol>>)

\* line 425: /public\s+(?:static\s+)?(\w+(?:<[\w<>,\s]+>)?)\s+(\w+)\s*\(([^)]*)\)\s*(?:throws\s+[\w,\s]+)?\s*\{/g
methodRegexWithBody ==
  ReCat(<<ReLit("public"), RePlus(ReWs), ReOpt(ReCat(<<ReLit("static"),
  RePlus(ReWs)>>)), ReCap(1, ReCat(<<RePlus(ReWord), ReOpt(ReCat(<<ReLit("<"),
  RePlus(ReSet(WordChars \cup WhiteSpace \cup {"<", ">", ","})),
  ReLit(">")>>))>>)), RePlus(ReWs), ReCap(2, RePlus(ReWord)), ReStar(ReWs),
  ReLit("("), ReCap(3, ReStar(ReNotSet({")"}))), ReLit(")"), ReStar(ReWs),
  ReOpt(ReCat(<<ReLit("throws"), RePlus(ReWs),
  RePlus(ReSet(WordChars \cup WhiteSpace \cup {","}))>>)), ReStar(ReWs),
  ReLit("{")>>)

\* line 456: /^(get|set)[A-Z]/
getSetRe ==
  ReCat(<<ReBol, ReCap(1, ReAlt(<<ReLit("get"), ReLit("set")>>)),
  ReSet(UpperChars)>>)

\* line 481: /readonly\s+(\w+):\s*Locator/g
readonlyLocatorRe ==
  ReCat(<<ReLit("readonly"), RePlus(ReWs), ReCap(1, RePlus(ReWord)),
  ReLit(":"), ReStar(ReWs), ReLit("Locator")>>)

\* ------------------------------------------------------------------------
\* parseJavaPageClass (script 03, both versions)
\* ------------------------------------------------------------------------

XPathRulesOf(version) == IF version = 1 THEN XPathRulesV1 ELSE XPathRulesV2

RECURSIVE XPathTry(_, _, _, _)
\* the k-th if statement of convertXPathToPlaywright, m its match
XPathTryWith(version, x, original, k, m) ==
  IF m.ok
  THEN (IF version = 1 THEN XPathGenerateV1(k, m, original)
        ELSE XPathGenerateV2(k, m, original))
  ELSE XPathTry(version, x, original, k + 1)

\* the if statements of convertXPathToPlaywright from the k-th on
XPathTry(version, x, original, k) ==
  IF k > Len(XPathRulesOf(version))
  THEN (IF version = 1 THEN XPathFallbackV1(x, original)
        ELSE XPathFallbackV2(x, original))
  ELSE XPathTryWith(version, x, original, k,
                    ReSearch(XPathRulesOf(version)[k], x, FALSE))

\* convertXPathToPlaywright on the cleaned expression x
XPathConvert(version, arg, x) ==
  XPathTry(version, x, IF version = 1 THEN arg ELSE x, 1)

\* convertXPathToPlaywright as one call
convertXPathToPlaywright(version, arg) ==
  XPathConvert(version, arg,
               IF version = 1 THEN CleanXPathV1(arg) ELSE CleanXPathV2(arg))

\* The while loops of parseJavaPageClass over the file, in order: the
\* regular expression, the groups that hold the field name and the
\* value, whether a name already recorded is skipped (exists), and how
\* the value becomes a locator.
LocatorPass(re, nameGroup, valueGroup, dedupe, kind) ==
  [re |-> re, name |-> nameGroup, value |-> valueGroup, dedupe |-> dedupe,
   kind |-> kind]

LocatorPasses(version) ==
  IF version = 1
  THEN << LocatorPass(findByXPathRegexV1, 2, 1, FALSE, "xpath"),
          LocatorPass(findByIdRegexV1, 2, 1, FALSE, "id"),
          LocatorPass(findByCssRegexV1, 2, 1, FALSE, "css") >>
  ELSE << LocatorPass(qafXpathRegex, 1, 2, FALSE, "xpath"),
          LocatorPass(qafXpathRegex2, 1, 2, TRUE, "xpath"),
          LocatorPass(simpleXpathRegex, 1, 2, TRUE, "xpath"),
          LocatorPass(findByXPathRegex, 2, 1, FALSE, "xpath"),
          LocatorPass(findByIdRegex, 2, 1, FALSE, "id"),
          LocatorPass(findByCssRegex, 2, 1, FALSE, "css") >>

\* The regular expression of the k-th loop; the loop after the locator
\* loops is the one over methodRegex
PassRe(version, k) ==
  IF k <= Len(LocatorPasses(version)) THEN LocatorPasses(version)[k].re
  ELSE methodRegex

\* result.locators.some(l => l.name === match[1])
LocatorExists(locs, name) == \E i \in 1..Len(locs) : locs[i].name = name

\* The record one match pushes on result.locators
LocatorRecord(version, pass, name, value, conv) ==
      CASE pass.kind = "xpath" ->
             [name |-> name, xpath |-> value, playwright |-> conv.locator,
              type |-> conv.type, comment |-> conv.comment,
              needsReview |-> IF version = 1 THEN conv.needsReview
                              ELSE Undefined]
        [] pass.kind = "id" ->
             [name |-> name, xpath |-> "id=" \o value,
              playwright |-> "page.locator('#" \o value \o "')",
              type |-> IF version = 1 THEN Undefined ELSE "css",
              comment |-> Undefined,
              needsReview |-> IF version = 1 THEN FALSE ELSE Undefined]
        [] pass.kind = "css" ->
             [name |-> name, xpath |-> "css=" \o value,
              playwright |-> "page.locator('" \o value \o "')",
              type |-> IF version = 1 THEN Undefined ELSE "css",
              comment |-> Undefined,
              needsReview |-> IF version = 1 THEN FALSE ELSE Undefined]

LocatorOf(version, pass, m) ==
  LocatorRecord(version, pass, m.c[pass.name], m.c[pass.value],
                convertXPathToPlaywright(version, m.c[pass.value]))

\* Skip standard methods, and accessors without parameters
StandardMethods ==
  {"toString", "equals", "hashCode", "getClass", "wait", "notify",
   "openPage", "launchPage"}

MethodSkipped(m) ==
  \/ m.c[1] \in StandardMethods
  \/ ReTest(accessorRe, m.c[1], FALSE) /\ m.c[2] = ""

\* result.locators after the body of a locator loop ran on the match m
PushLocator(version, pass, m, locs) ==
  IF pass.dedupe /\ LocatorExists(locs, m.c[pass.name]) THEN locs
  ELSE Append(locs, LocatorOf(version, pass, m))

\* result.methods after the body of the method loop ran on the match m
PushMethod(m, meths) ==
  IF MethodSkipped(m) THEN meths
  ELSE Append(meths, [name |-> m.c[1], params |-> m.c[2]])

\* result.className
FirstGroup(m) == IF m.ok THEN m.c[1] ELSE ""

ClassNameOf(version, text) ==
  FirstGroup(ReSearch(IF version = 1 THEN classNameReV1 ELSE classNameRe,
                      text, FALSE))

RECURSIVE ParseRun(_, _, _, _, _, _)
\* one turn of loop k of parseJavaPageClass, m the result of regex.exec
ParseTurn(version, text, k, n, locs, meths, m) ==
  IF ~m.ok
  THEN (IF k > n THEN [locators |-> locs, methods |-> meths]
        ELSE ParseRun(version, text, k + 1, 1, locs, meths))
  ELSE IF k > n
       THEN ParseRun(version, text, k, m.e, locs, PushMethod(m, meths))
       ELSE ParseRun(version, text, k, m.e,
                     PushLocator(version, LocatorPasses(version)[k], m, locs),
                     meths)

\* the loops of parseJavaPageClass from loop k, position from, on
ParseRun(version, text, k, from, locs, meths) ==
  ParseTurn(version, text, k, Len(LocatorPasses(version)), locs, meths,
            ReSearchFrom(PassRe(version, k), text, from, FALSE))

ParseResult(name, r) ==
  [className |-> name, locators |-> r.locators, methods |-> r.methods]

\* parseJavaPageClass as one call
parseJavaPageClass(version, text) ==
  ParseResult(ClassNameOf(version, text),
              ParseRun(version, text, 1, 1, <<>>, <<>>))

\* Java page classes: a class header, up to MaxDecls field declarations
\* and two methods.  Each declaration comes with the names of the fields
\* it declares (none for a declaration that is commented out).
MaxDecls == 2

FieldDecl(text, names) == [text |-> text, names |-> names]

FieldDecls ==
  { FieldDecl("  public static final By trade = By.xpath(xpathExpression: \"//button[contains(text(),'Trade')]\");\n",
              {"trade"}),
    FieldDecl("  static final By quote = By.xpath(xpathExpression: '//a[@id=\"q\"]');\n",
              {"quote"}),
    FieldDecl("  public static final By save = By.xpath(\"//button[@id='save']\");\n",
              {"save"}),
    FieldDecl("  @FindBy(xpath = \"//input[@id='user']\")\n  private WebElement userField;\n",
              {"userField"}),
    FieldDecl("  @FindBy(id = \"pass\")\n  private WebElement passField;\n",
              {"passField"}),
    FieldDecl("  @FindBy(css = '.btn')\n  public QAFWebElement loginButton;\n",
              {"loginButton"}),
    FieldDecl("  @FindBy(name = \"q\")\n  private WebElement searchBox;\n",
              {"searchBox"}),
    FieldDecl("  public static final By cancel = By.id(\"cancel\");\n",
              {"cancel"}),
    FieldDecl("  @FindBy(id = \"rows\")\n  private List<WebElement> rows;\n",
              {"rows"}),
    FieldDecl("  // public static final By trade = By.xpath(\"//old\");\n",
              {}) }

PageHeader == "package pages;\n\npublic class LoginPage extends BasePage {\n"

PageFooter ==
  "\n  public void login(String user) {\n    userField.sendKeys(user);\n  }\n"
  \o "\n  public String getTitle() {\n    return driver.getTitle();\n  }\n}\n"

\* The sequences of distinct declarations of a class
DeclSeqs ==
  { ds \in SeqsUpTo(FieldDecls, MaxDecls) :
      Len(ds) >= 1 /\ \A i, j \in 1..Len(ds) : i # j => ds[i] # ds[j] }

RECURSIVE DeclText(_)
DeclText(ds) == IF ds = <<>> THEN "" ELSE Head(ds).text \o DeclText(Tail(ds))

PageSourceOf(ds) == PageHeader \o DeclText(ds) \o PageFooter

DeclaredIn(ds) == UNION { ds[i].names : i \in 1..Len(ds) }

ParseInit ==
  /\ \E ds \in DeclSeqs :
       /\ pageContent = PageSourceOf(ds)
       /\ declared = DeclaredIn(ds)
  /\ parseVersion \in {1, 2}
  /\ className = ""
  /\ passIdx = 1
  /\ lastIndex = 1
  /\ execMatch = ReFail
  /\ locators = <<>>
  /\ methods = <<>>
  /\ parsePc = "class"

ParseIdle ==
  /\ pageContent = ""
  /\ declared = {}
  /\ parseVersion = 2
  /\ className = ""
  /\ passIdx = 1
  /\ lastIndex = 1
  /\ execMatch = ReFail
  /\ locators = <<>>
  /\ methods = <<>>
  /\ parsePc = "idle"

\* const classMatch = content.match(...)
ParseClass ==
  /\ parsePc = "class"
  /\ className' = ClassNameOf(parseVersion, pageContent)
  /\ parsePc' = "exec"
  /\ UNCHANGED <<pageContent, declared, parseVersion, passIdx, lastIndex,
                 execMatch, locators, methods, notParse>>

\* match = regex.exec(content), from the regex's lastIndex
ParseExec ==
  /\ parsePc = "exec"
  /\ execMatch' = ReSearchFrom(PassRe(parseVersion, passIdx), pageContent,
                               lastIndex, FALSE)
  /\ parsePc' = "body"
  /\ UNCHANGED <<pageContent, declared, parseVersion, className, passIdx,
                 lastIndex, locators, methods, notParse>>

\* the body of a locator loop: result.locators.push(...)
ParsePush ==
  /\ parsePc = "body" /\ execMatch.ok
  /\ passIdx <= Len(LocatorPasses(parseVersion))
  /\ LET pass == LocatorPasses(parseVersion)[passIdx]
     IN  /\ ~(pass.dedupe /\ LocatorExists(locators, execMatch.c[pass.name]))
         /\ locators' = PushLocator(parseVersion, pass, execMatch, locators)
  /\ lastIndex' = execMatch.e
  /\ parsePc' = "exec"
  /\ UNCHANGED <<pageContent, declared, parseVersion, className, passIdx,
                 execMatch, methods, notParse>>

\* the body of a locator loop when the name is already recorded
ParseSkipExisting ==
  /\ parsePc = "body" /\ execMatch.ok
  /\ passIdx <= Len(LocatorPasses(parseVersion))
  /\ LET pass == LocatorPasses(parseVersion)[passIdx]
     IN  pass.dedupe /\ LocatorExists(locators, execMatch.c[pass.name])
  /\ lastIndex' = execMatch.e
  /\ parsePc' = "exec"
  /\ UNCHANGED <<pageContent, declared, parseVersion, className, passIdx,
                 execMatch, locators, methods, notParse>>

\* the body of the method loop: result.methods.push(...)
ParseMethodPush ==
  /\ parsePc = "body" /\ execMatch.ok
  /\ passIdx > Len(LocatorPasses(parseVersion))
  /\ ~MethodSkipped(execMatch)
  /\ methods' = PushMethod(execMatch, methods)
  /\ lastIndex' = execMatch.e
  /\ parsePc' = "exec"
  /\ UNCHANGED <<pageContent, declared, parseVersion, className, passIdx,
                 execMatch, locators, notParse>>

\* the body of the method loop: continue
ParseMethodSkip ==
  /\ parsePc = "body" /\ execMatch.ok
  /\ passIdx > Len(LocatorPasses(parseVersion))
  /\ MethodSkipped(execMatch)
  /\ lastIndex' = execMatch.e
  /\ parsePc' = "exec"
  /\ UNCHANGED <<pageContent, declared, parseVersion, className, passIdx,
                 execMatch, locators, methods, notParse>>

\* exec returned null: the loop ends and the next starts
ParseNextPass ==
  /\ parsePc = "body" /\ ~execMatch.ok
  /\ passIdx <= Len(LocatorPasses(parseVersion))
  /\ passIdx' = passIdx + 1
  /\ lastIndex' = 1
  /\ parsePc' = "exec"
  /\ UNCHANGED <<pageContent, declared, parseVersion, className, execMatch,
                 locators, methods, notParse>>

\* the method loop ends: return result
ParseReturn ==
  /\ parsePc = "body" /\ ~execMatch.ok
  /\ passIdx > Len(LocatorPasses(parseVersion))
  /\ parsePc' = "done"
  /\ UNCHANGED <<pageContent, declared, parseVersion, className, passIdx,
                 lastIndex, execMatch, locators, methods, notParse>>

ParseNext ==
  \/ ParseClass
  \/ ParseExec
  \/ ParsePush
  \/ ParseSkipExisting
  \/ ParseMethodPush
  \/ ParseMethodSkip
  \/ ParseNextPass
  \/ ParseReturn

\* ------------------------------------------------------------------------
\* The target page file: generated by script 03, rewritten by script 07
\* ------------------------------------------------------------------------

\* array.includes(x)
InSeq(a, x) == \E i \in 1..Len(a) : a[i] = x

\* array.find / array.findIndex: the index of the first element for which
\* Test holds, 0 when there is none
FindFirst(a, Test(_)) ==
  IF \E i \in 1..Len(a) : Test(a[i])
  THEN CHOOSE i \in 1..Len(a) : Test(a[i]) /\ \A j \in 1..(i - 1) : ~Test(a[j])
  ELSE 0

\* array.filter
FilterSeq(a, Test(_)) == SelectSeq(a, Test)

\* The first position >= from at which sub stands in s, 0 when there is none
IndexOf(s, sub, from) ==
  LET P == { i \in from..(Len(s) - Len(sub) + 1) : SameAt(sub, s, i) }
  IN  IF P = {} THEN 0 ELSE CHOOSE i \in P : \A j \in P : i <= j

\* str.replace(sub, text) for a string pattern: the first occurrence
ReplaceAtPos(s, p, n, text) ==
  IF p = 0 THEN s
  ELSE SubSeq(s, 1, p - 1) \o text \o SubSeq(s, p + n, Len(s))

StrReplaceFirst(s, sub, text) ==
  ReplaceAtPos(s, IndexOf(s, sub, 1), Len(sub), text)

RECURSIVE SplitStr(_, _)
\* str.split(sep) for a separator of one or more characters
SplitStrAt(s, sep, p) ==
  IF p = 0 THEN <<s>>
  ELSE <<SubSeq(s, 1, p - 1)>> \o SplitStr(SubSeq(s, p + Len(sep), Len(s)), sep)

SplitStr(s, sep) == SplitStrAt(s, sep, IndexOf(s, sep, 1))

\* paramsStr.split(',').filter(p => p.trim()): the parameters of a Java
\* signature, each split at white space
NonBlank(p) == JsTrim(p) # ""

\* p.trim().split(/\s+/) for every parameter
SplitParams(ps) == [i \in 1..Len(ps) |-> JsSplitRe(JsTrim(ps[i]), WhiteSpaceRunRe)]

ParamParts(paramsStr) == SplitParams(FilterSeq(JsSplit(paramsStr, ","), NonBlank))

\* parts[parts.length - 1] + ': string' for every parameter
StubParamsOf(parts) ==
  JsJoin([i \in 1..Len(parts) |-> parts[i][Len(parts[i])] \o ": string"], ", ")

\* script 03: the parameter list of a stub
StubParams(paramsStr) == StubParamsOf(ParamParts(paramsStr))

\* script 03, line 851: the stub of one method
Placeholder == "// TODO: Implement this method"

MethodStub(method) ==
  "\n  async " \o method.name \o "(" \o StubParams(method.params)
    \o "): Promise<void> {\n    " \o Placeholder
    \o "\n    throw new Error('Not implemented');\n  }"

LocatorsOfType(locs, type) == SelectSeq(locs, LAMBDA l : l.type = type)

RECURSIVE ReadonlyLines(_)
ReadonlyLines(locs) ==
  IF locs = <<>> THEN ""
  ELSE "  readonly " \o Head(locs).name \o ": Locator;\n" \o ReadonlyLines(Tail(locs))

\* locatorDeclarations
\* if (locs.length > 0) { title; the readonly lines; tail }
DeclarationBlock(title, locs, tail) ==
  IF Len(locs) > 0 THEN title \o ReadonlyLines(locs) \o tail ELSE ""

LocatorDeclarations(locs) ==
  DeclarationBlock("  // Semantic locators (getByRole, getByLabel, etc.)\n",
                   LocatorsOfType(locs, "semantic"), "\n")
    \o DeclarationBlock("  // CSS locators\n", LocatorsOfType(locs, "css"), "\n")
    \o DeclarationBlock(
         "  // XPath locators (consider refactoring to semantic locators)\n",
         LocatorsOfType(locs, "xpath"), "")

CommentCut == 80

RECURSIVE LocatorInits(_)
\* locatorInits
LocatorInits(locs) ==
  IF locs = <<>> THEN ""
  ELSE LET loc == Head(locs)
       IN  (IF Truthy(loc.comment)
            THEN "    // " \o loc.comment \o "\n    // Original: "
                   \o JsSubstring(loc.xpath, 0, CommentCut)
                   \o (IF Len(loc.xpath) > CommentCut THEN "..." ELSE "") \o "\n"
            ELSE "")
           \o "    this." \o loc.name \o " = "
           \o StrReplaceFirst(loc.playwright, "page.", "this.page.") \o ";\n"
           \o LocatorInits(Tail(locs))

LocatorCount(locs, type) == NatToString(Len(LocatorsOfType(locs, type)))

\* The template literal generateTypeScriptPage returns
PageText(cn, javaName, moduleName, summary, decls, inits, stubs) ==
      "\n/**\n * Page: " \o cn \o "\n * Converted from: " \o javaName
        \o ".java\n * Module: " \o moduleName
        \o "\n * \n * Locator conversion summary:\n" \o summary \o "\n */"
        \o "\nimport { Page, Locator, expect } from '@playwright/test';\n"
        \o "import { BasePage } from '../base.page';\n\nexport class " \o cn
        \o " extends BasePage {\n  // Locators\n"
        \o (IF decls # "" THEN decls ELSE "  // No locators found\n")
        \o "\n  constructor(page: Page) {\n    super(page);\n"
        \o (IF inits # "" THEN inits ELSE "    // No locators to initialize")
        \o "\n  }\n\n  // Navigation\n  async navigate(): Promise<void> {\n"
        \o "    await this.page.goto('/" \o moduleName \o "');\n"
        \o "    await this.page.waitForLoadState('networkidle');\n  }\n\n"
        \o "  // Methods\n"
        \o (IF stubs # "" THEN stubs ELSE "  // No methods to convert")
        \o "\n}\n"

\* generateTypeScriptPage (second version)
generateTypeScriptPage(parsed, moduleName) ==
  PageText(JsReplaceFirst(parsed.className, pageSuffixRe, FALSE, "") \o "Page",
           parsed.className, moduleName,
           " *   - Semantic (getByRole, etc.): "
             \o LocatorCount(parsed.locators, "semantic")
             \o "\n *   - CSS selectors: " \o LocatorCount(parsed.locators, "css")
             \o "\n *   - XPath preserved: "
             \o LocatorCount(parsed.locators, "xpath"),
           LocatorDeclarations(parsed.locators),
           LocatorInits(parsed.locators),
           JsJoin([i \in 1..Len(parsed.methods) |-> MethodStub(parsed.methods[i])],
                  "\n"))

\* ---- script 07 ----

ToUpperCase(s) == MapChars(s, [c \in LowerChars |-> UpperOfChar(c)])

\* parts[0].toLowerCase().includes('string') ? 'string' : ... : 'any'
ParamType(word) ==
  IF Includes(ToLowerCase(word), "string") THEN "string"
  ELSE IF Includes(ToLowerCase(word), "int") THEN "number"
  ELSE "any"

TypedParams(parts) ==
  [i \in 1..Len(parts) |->
     [name |-> parts[i][Len(parts[i])], type |-> ParamType(parts[i][1])]]

MethodParams(paramsStr) == TypedParams(ParamParts(paramsStr))

\* braceCount after the characters up to position e were read, counting
\* from braceCount = count after position end
BraceCountAt(text, end, count, e) ==
  count + Cardinality({ j \in (end + 1)..e : BraceDelta(CharAt(text, j)) = 1 })
        - Cardinality({ j \in (end + 1)..e : BraceDelta(CharAt(text, j)) = -1 })

\* The least of the positions, dflt for none
FirstOr(ps, dflt) ==
  IF ps = {} THEN dflt ELSE CHOOSE p \in ps : \A q \in ps : p <= q

\* while (braceCount > 0 && endIndex < content.length): the endIndex the
\* scan stops at, from endIndex = end with braceCount = count
ScanBody(text, end, count) ==
  IF count <= 0 THEN end
  ELSE FirstOr({ e \in (end + 1)..Len(text) :
                   BraceCountAt(text, end, count, e) <= 0 },
               Max(end, Len(text)))

RECURSIVE ParseMethodsFrom(_, _)
\* The method of the match m, with its parameters ps: nothing when the
\* loop skips it
MethodOf(text, m, start, end, ps) ==
  IF \/ m.c[2] \in {"toString", "equals", "hashCode", "getClass"}
     \/ ReTest(getSetRe, m.c[2], FALSE) /\ Len(ps) = 0
  THEN <<>>
  ELSE << [name |-> m.c[2], returnType |-> m.c[1], params |-> ps,
           body |-> JsTrim(JsSubstring(text, start, end - 1))] >>

\* one turn of the while loop, m the result of methodRegex.exec
ParseMethodsAt(text, m) ==
  IF ~m.ok THEN <<>>
  ELSE MethodOf(text, m, m.e - 1, ScanBody(text, m.e - 1, 1),
                MethodParams(m.c[3]))
         \o ParseMethodsFrom(text, m.e)

\* parseJavaMethodsWithBody, from the lastIndex of methodRegex
ParseMethodsFrom(text, from) ==
  ParseMethodsAt(text, ReSearchFrom(methodRegexWithBody, text, from, FALSE))

parseJavaMethodsWithBody(text) == ParseMethodsFrom(text, 1)

\* locators.find(...) for the three searches, in turn: d, c and k are what
\* FindFirst gave for each
FirstFound(locs, d, c, k) ==
  IF d # 0 /\ locs[d] # "" THEN locs[d]
  ELSE IF c # 0 /\ locs[c] # "" THEN locs[c]
  ELSE IF k # 0 /\ locs[k] # "" THEN locs[k]
  ELSE Null

InferFromBase(baseName, lowerBase, locs) ==
  LET Direct(l) == ToLowerCase(l) = lowerBase
      Contains(l) == \/ Includes(ToLowerCase(l), lowerBase)
                     \/ Includes(lowerBase, ToLowerCase(l))
      Camel(l) == \/ l = ToLowerCase(JsSubstring(baseName, 0, 1))
                          \o JsSubstring(baseName, 1, Len(baseName))
                  \/ l = baseName
  IN  FirstFound(locs, FindFirst(locs, Direct), FindFirst(locs, Contains),
                 FindFirst(locs, Camel))

InferFrom(baseName, locs) == InferFromBase(baseName, ToLowerCase(baseName), locs)

\* inferLocatorFromMethodName
inferLocatorFromMethodName(methodName, locs) ==
  InferFrom(JsReplaceFirst(JsReplaceFirst(methodName, namePrefixRe, TRUE, ""),
                           nameSuffixRe, TRUE, ""),
            locs)

\* keyMap[keyMatch[1].toUpperCase()] || keyMatch[1]
PlaywrightKey(key) ==
  LET u == ToUpperCase(key)
  IN  CASE u \in {"ENTER", "RETURN"} -> "Enter"
        [] u = "TAB" -> "Tab"
        [] u = "ESCAPE" -> "Escape"
        [] u = "BACKSPACE" -> "Backspace"
        [] u = "DELETE" -> "Delete"
        [] u = "SPACE" -> "Space"
        [] u = "ARROW_UP" -> "ArrowUp"
        [] u = "ARROW_DOWN" -> "ArrowDown"
        [] u = "ARROW_LEFT" -> "ArrowLeft"
        [] u = "ARROW_RIGHT" -> "ArrowRight"
        [] OTHER -> key

\* locatorMatch && locators.includes(locatorMatch[1])
Known(m, locs) == m.ok /\ InSeq(locs, m.c[1])

\* The statement built on the locator the body names when the page has
\* it, what the code does otherwise when not
OnLocator(m, locs, pre, post, otherwise) ==
  IF Known(m, locs) THEN pre \o m.c[1] \o post ELSE otherwise

\* a || b for two match results
OrMatch(m1, m2) == IF m1.ok THEN m1 ELSE m2

AnalyzeResult(pattern, impl) == [pattern |-> pattern, implementation |-> impl]

\* The chain of if statements of analyzeAndImplementMethod, with
\* lowerName, lowerBody and (where a branch asks for it) the locator
\* inferred from the method name
AnalyzeChain(lowerName, lowerBody, methodBody, ps, locs, inferred) ==
  LET N(w) == Includes(lowerName, w)
      B(w) == Includes(lowerBody, w)
      M(re, ci) == ReSearch(re, methodBody, ci)
      Inferred(pre, post) == IF inferred # Null THEN pre \o inferred \o post ELSE Null
      IsText(p) == \/ p.type = "string"
                   \/ Includes(ToLowerCase(p.name), "text")
                   \/ Includes(ToLowerCase(p.name), "value")
      IsString(p) == p.type = "string"
      IsIndex(p) == p.type = "number" \/ Includes(p.name, "index")
      IsUrl(p) == Includes(ToLowerCase(p.name), "url")
      Fill(m, t, arg) ==
        IF Known(m, locs)
        THEN (IF B(".clear()")
              THEN "await this." \o m.c[1] \o ".clear();\n    await this."
                     \o m.c[1] \o ".fill(" \o arg \o ");"
              ELSE "await this." \o m.c[1] \o ".fill(" \o arg \o ");")
        ELSE IF t # 0
        THEN Inferred("await this.", ".fill(" \o ps[t].name \o ");")
        ELSE Null
      NameOr(t, otherwise) == IF t # 0 THEN ps[t].name ELSE otherwise
      GetAttribute(a, m) ==
        IF Known(m, locs) /\ a.ok
        THEN "return await this." \o m.c[1] \o ".getAttribute('" \o a.c[1] \o "');"
        ELSE Null
      SelectOption(m, t, key) ==
        IF m.ok /\ t # 0
        THEN "await this." \o m.c[1] \o ".selectOption({ " \o key \o ": "
               \o ps[t].name \o " });"
        ELSE Null
      Goto(u, p) ==
        IF u.ok
        THEN "await this.page.goto('" \o u.c[1]
               \o "');\n    await this.page.waitForLoadState('networkidle');"
        ELSE IF p # 0
        THEN "await this.page.goto(" \o ps[p].name
               \o ");\n    await this.page.waitForLoadState('networkidle');"
        ELSE Null
      Frame(f) ==
        IF f.ok THEN "const frame = this.page.frameLocator('" \o f.c[1] \o "');"
        ELSE Null
      Press(k) ==
        IF k.ok
        THEN "await this.page.keyboard.press('" \o PlaywrightKey(k.c[1]) \o "');"
        ELSE Null
      Enabled(m) ==
        IF Known(m, locs)
        THEN "await this." \o m.c[1]
               \o ".waitFor({ state: 'visible' });\n    await expect(this."
               \o m.c[1] \o ").toBeEnabled();"
        ELSE Null
  IN  IF N("click") \/ B(".click()")
      THEN AnalyzeResult("click",
             OnLocator(M(clickLocatorRe, FALSE), locs, "await this.", ".click();",
               IF Len(ps) > 0
               THEN "await this.page.getByRole('button', { name: "
                      \o ps[1].name \o " }).click();"
               ELSE Inferred("await this.", ".click();")))
      ELSE IF N("doubleclick") \/ B(".doubleclick()")
      THEN AnalyzeResult("doubleClick",
             OnLocator(M(doubleClickLocatorRe, TRUE), locs, "await this.",
                       ".dblclick();", Null))
      ELSE IF N("rightclick") \/ B(".contextclick()")
      THEN AnalyzeResult("rightClick",
             OnLocator(M(contextClickLocatorRe, TRUE), locs, "await this.",
                       ".click({ button: 'right' });", Null))
      ELSE IF \/ N("enter") \/ N("type") \/ N("input") \/ N("fill")
              \/ B(".sendkeys(") \/ B(".clear()")
      THEN AnalyzeResult("textInput",
             Fill(M(sendKeysLocatorRe, TRUE), FindFirst(ps, IsText),
                  NameOr(FindFirst(ps, IsText), "''")))
      ELSE IF N("gettext") \/ N("getvalue") \/ B(".gettext()")
      THEN AnalyzeResult("getText",
             OnLocator(M(getTextLocatorRe, TRUE), locs, "return await this.",
                       ".innerText();",
                       Inferred("return await this.", ".innerText();")))
      ELSE IF N("getattribute") \/ B(".getattribute(")
      THEN AnalyzeResult("getAttribute",
             GetAttribute(M(attrMatchRe, TRUE), M(getAttributeLocatorRe, TRUE)))
      ELSE IF N("wait") \/ B("waitfor") \/ B("wait.until")
      THEN AnalyzeResult("wait",
             IF B("visible") \/ B("displayed")
             THEN OnLocator(M(visibilityOfRe, TRUE), locs, "await this.",
                            ".waitFor({ state: 'visible' });",
                            "await this.page.waitForLoadState('networkidle');")
             ELSE IF B("clickable") THEN Enabled(M(clickableRe, TRUE))
             ELSE IF B("invisible") \/ B("notvisible")
             THEN OnLocator(M(invisibilityOfRe, TRUE), locs, "await this.",
                            ".waitFor({ state: 'hidden' });", Null)
             ELSE "await this.page.waitForLoadState('networkidle');")
      ELSE IF N("select") \/ B("select.") \/ B(".selectby")
      THEN AnalyzeResult("select",
             IF B("selectbyvisibletext") \/ B("selectbytext")
             THEN SelectOption(OrMatch(M(newSelectRe, TRUE), M(selectByRe, TRUE)),
                               FindFirst(ps, IsString), "label")
             ELSE IF B("selectbyvalue")
             THEN SelectOption(M(newSelectRe, TRUE), FindFirst(ps, IsString),
                               "value")
             ELSE IF B("selectbyindex")
             THEN SelectOption(M(newSelectRe, TRUE), FindFirst(ps, IsIndex),
                               "index")
             ELSE Null)
      ELSE IF N("checkbox") \/ N("check") \/ B(".isselected()")
      THEN AnalyzeResult("checkbox",
             IF N("uncheck") \/ (B("if") /\ B("isselected"))
             THEN OnLocator(M(checkboxLocatorRe, TRUE), locs, "await this.",
                            ".uncheck();", Null)
             ELSE OnLocator(M(checkboxLocatorRe, TRUE), locs, "await this.",
                            ".check();", Null))
      ELSE IF N("isdisplayed") \/ N("isvisible") \/ B(".isdisplayed()")
      THEN AnalyzeResult("isVisible",
             OnLocator(M(isDisplayedLocatorRe, TRUE), locs, "return await this.",
                       ".isVisible();",
                       Inferred("return await this.", ".isVisible();")))
      ELSE IF N("isenabled") \/ B(".isenabled()")
      THEN AnalyzeResult("isEnabled",
             OnLocator(M(isEnabledLocatorRe, TRUE), locs, "return await this.",
                       ".isEnabled();", Null))
      ELSE IF N("hover") \/ N("mouseover") \/ B(".movetoelement(")
      THEN AnalyzeResult("hover",
             OnLocator(M(moveToElementRe, TRUE), locs, "await this.", ".hover();",
                       Inferred("await this.", ".hover();")))
      ELSE IF N("scroll") \/ B("scrollintoview")
      THEN AnalyzeResult("scroll",
             OnLocator(OrMatch(M(scrollArgRe, TRUE), M(scrollReceiverRe, TRUE)),
                       locs, "await this.", ".scrollIntoViewIfNeeded();",
                       "await this.page.evaluate(() => window.scrollTo(0, document.body.scrollHeight));"))
      ELSE IF \/ N("navigate") \/ N("goto") \/ N("openpage") \/ B(".get(")
              \/ B(".navigate()")
      THEN AnalyzeResult("navigate",
             Goto(M(urlMatchRe, TRUE), FindFirst(ps, IsUrl)))
      ELSE IF N("frame") \/ B("switchto().frame")
      THEN AnalyzeResult("frame",
             Frame(OrMatch(M(frameQuotedRe, TRUE), M(frameWordRe, TRUE))))
      ELSE IF N("alert") \/ B("switchto().alert")
      THEN AnalyzeResult("alert",
             IF B(".accept()")
             THEN "this.page.on('dialog', dialog => dialog.accept());"
             ELSE IF B(".dismiss()")
             THEN "this.page.on('dialog', dialog => dialog.dismiss());"
             ELSE Null)
      ELSE IF N("getcount") \/ N("getsize") \/ B(".size()")
      THEN AnalyzeResult("count",
             OnLocator(OrMatch(M(sizeLocatorRe, TRUE),
                               M(findElementsLocatorRe, TRUE)),
                       locs, "return await this.", ".count();", Null))
      ELSE IF N("verify") \/ N("validate") \/ N("assert") \/ B("assert.")
      THEN AnalyzeResult("assertion",
             IF B("assertequals") \/ B("asserttrue")
             THEN "// TODO: Add assertion\n    // await expect(locator).toHaveText(expected);"
             ELSE IF N("displayed") \/ N("visible")
             THEN Inferred("await expect(this.", ").toBeVisible();")
             ELSE Null)
      ELSE IF N("clear") /\ ~N("click")
      THEN AnalyzeResult("clear",
             OnLocator(M(clearLocatorRe, TRUE), locs, "await this.", ".clear();",
                       Null))
      ELSE IF N("press") \/ N("key") \/ B(".sendkeys(keys.")
      THEN AnalyzeResult("keyboard", Press(M(keyMatchRe, TRUE)))
      ELSE IF N("focus") \/ B(".focus()")
      THEN AnalyzeResult("focus",
             OnLocator(M(focusLocatorRe, TRUE), locs, "await this.", ".focus();",
                       Null))
      ELSE IF N("blur") \/ B(".blur()")
      THEN AnalyzeResult("blur",
             OnLocator(M(blurLocatorRe, TRUE), locs, "await this.", ".blur();",
                       Null))
      ELSE AnalyzeResult(Null, Null)

\* analyzeAndImplementMethod: the pattern and the implementation (Null for
\* null) the chain of if statements arrives at
analyzeAndImplementMethod(methodName, methodBody, ps, locs) ==
  AnalyzeChain(ToLowerCase(methodName), ToLowerCase(methodBody), methodBody, ps,
               locs, inferLocatorFromMethodName(methodName, locs))

\* new RegExp(`async\\s+${method.name}\\s*\\([^)]*\\)\\s*:\\s*Promise<[^>]+>
\*             \\s*\\{[^}]*TODO[^}]*\\}`, 'i')
todoPattern(name) ==
  ReCat(<<ReLit("async"), RePlus(ReWs), ReLit(name), ReStar(ReWs),
  ReLit("("), ReStar(ReNotSet({")"})), ReLit(")"), ReStar(ReWs), ReLit(":"),
  ReStar(ReWs), ReLit("Promise<"), RePlus(ReNotSet({">"})), ReLit(">"),
  ReStar(ReWs), ReLit("{"), ReStar(ReNotSet({"}"})), ReLit("TODO"),
  ReStar(ReNotSet({"}"})), ReLit("}")>>)

\* the returnType of the replacement method
TsReturnType(javaType) ==
  LET t == ToLowerCase(javaType)
  IN  IF Includes(t, "void") THEN "void"
      ELSE IF Includes(t, "string") THEN "string"
      ELSE IF Includes(t, "boolean") THEN "boolean"
      ELSE IF Includes(t, "int") THEN "number"
      ELSE "void"

\* newMethod
NewMethod(method, impl) ==
  "async " \o method.name \o "("
    \o JsJoin([i \in 1..Len(method.params) |->
                 method.params[i].name \o ": " \o method.params[i].type], ", ")
    \o "): Promise<" \o TsReturnType(method.returnType) \o "> {\n    "
    \o impl \o "\n  }"

\* [...tsContent.matchAll(/readonly\s+(\w+):\s*Locator/g)].map(m => m[1])
FirstGroups(ms) == [i \in 1..Len(ms) |-> ms[i].c[1]]

LocatorNames(text) == FirstGroups(ReMatchAll(readonlyLocatorRe, text, FALSE))

\* ---- the units of a target file, as a reader of the file sees them ----

MethodsMarker == "  // Methods\n"

UnitHead == "\n  async "

UnitSep == "\n\n  async "

FileTail == "\n}\n"

\* Where the text after the "// Methods" line starts, 0 without that line
MethodsStart(file) ==
  LET p == IndexOf(file, MethodsMarker, 1)
  IN  IF p = 0 THEN 0 ELSE p + Len(MethodsMarker)

\* The method units of the file in order, each from its name to its
\* closing brace
UnitsOf(file) ==
  LET st == MethodsStart(file)
  IN  IF st = 0 \/ ~SameAt(UnitHead, file, st) THEN <<>>
      ELSE SplitStr(SubSeq(file, st + Len(UnitHead), Len(file) - Len(FileTail)),
                    UnitSep)

\* The file with its method units replaced by units
WithUnits(file, units) ==
  SubSeq(file, 1, MethodsStart(file) - 1) \o UnitHead \o JsJoin(units, UnitSep)
    \o FileTail

\* Which unit the position pos of the file lies in, 0 for none
UnitAt(file, pos) ==
  LET st == MethodsStart(file)
  IN  IF st = 0 THEN 0
      ELSE Cardinality({ p \in st..pos : SameAt(UnitHead, file, p) })

\* ---- the operations ----

Absent == "<absent>"

MaxMethods == 2

MaxOps == 3

ModuleName == "login"

RewriteHeader ==
  "package pages;\n\npublic class LoginPage extends BasePage {\n"
  \o "  @FindBy(id = \"save\")\n  private WebElement saveButton;\n"
  \o "  @FindBy(id = \"todo\")\n  private WebElement todoItem;\n"

\* The public methods of the Java page classes
JavaMethodTexts ==
  { "\n  public void clickSave() {\n    saveButton.click();\n  }\n",
    "\n  public void verifyTitle(String expected) {\n    Assert.assertEquals(driver.getTitle(), expected);\n  }\n",
    "\n  public void clickTodoItem() {\n    todoItem.click();\n  }\n",
    "\n  public void submitOrder() {\n    for (Item i : items) {\n      i.process();\n    }\n  }\n",
    "\n  public void clickButton(String name) {\n    driver.findElement(By.name(name)).click();\n  }\n" }

JavaSources ==
  { RewriteHeader \o JsJoin(ms, "") \o "}\n" :
      ms \in { s \in SeqsUpTo(JavaMethodTexts, MaxMethods) :
                 Len(s) >= 1 /\ \A i, j \in 1..Len(s) : i # j => s[i] # s[j] } }

\* What a user types in place of a placeholder
HandBodies ==
  { "await this.page.getByTestId('go').click();",
    "const todoCount = await this.page.locator('li').count();\n    expect(todoCount).toBeGreaterThan(0);" }

\* One completed operation on the target file
Done(op, file, implemented, wrote, replaced) ==
  [op |-> op, file |-> file, implemented |-> implemented, wrote |-> wrote,
   replaced |-> replaced]

RewriteInit ==
  /\ javaSource \in JavaSources
  /\ tsFile = Absent
  /\ tsContent = ""
  /\ tsLocators = <<>>
  /\ javaMethods = <<>>
  /\ methodIdx = 0
  /\ todoMatch = ReFail
  /\ implementedCount = 0
  /\ replacedUnits = {}
  /\ history = <<>>
  /\ rwPc = "ready"

RewriteIdle ==
  /\ javaSource = ""
  /\ tsFile = Absent
  /\ tsContent = ""
  /\ tsLocators = <<>>
  /\ javaMethods = <<>>
  /\ methodIdx = 0
  /\ todoMatch = ReFail
  /\ implementedCount = 0
  /\ replacedUnits = {}
  /\ history = <<>>
  /\ rwPc = "idle"

\* script 03 (migrate.js pages, or as the third step of migrate.js all):
\* processDirectory parses the class and writes the generated file
RunPages ==
  /\ rwPc = "ready" /\ Len(history) < MaxOps
  /\ \E parsed \in {parseJavaPageClass(2, javaSource)} :
       /\ parsed.className # ""
       /\ tsFile' = generateTypeScriptPage(parsed, ModuleName)
  /\ history' = Append(history, Done("pages", tsFile', 0, TRUE, {}))
  /\ UNCHANGED <<javaSource, tsContent, tsLocators, javaMethods, methodIdx,
                 todoMatch, implementedCount, replacedUnits, rwPc, notRewrite>>

\* script 07 when the target file does not exist: nothing is done
AutoNoTarget ==
  /\ rwPc = "ready" /\ Len(history) < MaxOps
  /\ tsFile = Absent
  /\ history' = Append(history, Done("auto", tsFile, 0, FALSE, {}))
  /\ UNCHANGED <<javaSource, tsFile, tsContent, tsLocators, javaMethods,
                 methodIdx, todoMatch, implementedCount, replacedUnits, rwPc,
                 notRewrite>>

\* updateTypeScriptFile up to the forEach
AutoBegin ==
  /\ rwPc = "ready" /\ Len(history) < MaxOps
  /\ tsFile # Absent
  /\ tsContent' = tsFile
  /\ tsLocators' = LocatorNames(tsFile)
  /\ javaMethods' = parseJavaMethodsWithBody(javaSource)
  /\ methodIdx' = 0
  /\ implementedCount' = 0
  /\ replacedUnits' = {}
  /\ rwPc' = "test"
  /\ UNCHANGED <<javaSource, tsFile, todoMatch, history, notRewrite>>

\* todoPattern.test(tsContent) for the next method
AutoTest ==
  /\ rwPc = "test" /\ methodIdx < Len(javaMethods)
  /\ todoMatch' = ReSearch(todoPattern(javaMethods[methodIdx + 1].name),
                           tsContent, TRUE)
  /\ rwPc' = "found"
  /\ UNCHANGED <<javaSource, tsFile, tsContent, tsLocators, javaMethods,
                 methodIdx, implementedCount, replacedUnits, history, notRewrite>>

\* if (!todoPattern.test(tsContent)) return;
AutoNoTodo ==
  /\ rwPc = "found" /\ ~todoMatch.ok
  /\ methodIdx' = methodIdx + 1
  /\ rwPc' = "test"
  /\ UNCHANGED <<javaSource, tsFile, tsContent, tsLocators, javaMethods,
                 todoMatch, implementedCount, replacedUnits, history, notRewrite>>

\* The implementation analyzeAndImplementMethod gives for the method
ImplementationOf(method) ==
  analyzeAndImplementMethod(method.name, method.body, method.params,
                            tsLocators).implementation

\* if (result.implementation): tsContent.replace(todoPattern, newMethod)
AutoImplement ==
  /\ rwPc = "found" /\ todoMatch.ok
  /\ \E impl \in {ImplementationOf(javaMethods[methodIdx + 1])} :
       /\ Truthy(impl)
       /\ tsContent' = JsReplaceFirst(tsContent,
                          todoPattern(javaMethods[methodIdx + 1].name), TRUE,
                          NewMethod(javaMethods[methodIdx + 1], impl))
  /\ implementedCount' = implementedCount + 1
  /\ replacedUnits' = replacedUnits \cup {UnitAt(tsContent, todoMatch.b)}
  /\ methodIdx' = methodIdx + 1
  /\ rwPc' = "test"
  /\ UNCHANGED <<javaSource, tsFile, tsLocators, javaMethods, todoMatch,
                 history, notRewrite>>

\* else: stats.methodsSkipped++
AutoSkip ==
  /\ rwPc = "found" /\ todoMatch.ok
  /\ ~Truthy(ImplementationOf(javaMethods[methodIdx + 1]))
  /\ methodIdx' = methodIdx + 1
  /\ rwPc' = "test"
  /\ UNCHANGED <<javaSource, tsFile, tsContent, tsLocators, javaMethods,
                 todoMatch, implementedCount, replacedUnits, history, notRewrite>>

\* if (implementedCount > 0) fs.writeFileSync(tsFilePath, tsContent)
AutoEnd ==
  /\ rwPc = "test" /\ methodIdx = Len(javaMethods)
  /\ tsFile' = IF implementedCount > 0 THEN tsContent ELSE tsFile
  /\ history' = Append(history, Done("auto", tsFile', implementedCount,
                                     implementedCount > 0, replacedUnits))
  /\ rwPc' = "ready"
  /\ UNCHANGED <<javaSource, tsContent, tsLocators, javaMethods, methodIdx,
                 todoMatch, implementedCount, replacedUnits, notRewrite>>

\* The user replaces the body of a placeholder unit by hand
HandEdit ==
  /\ rwPc = "ready" /\ Len(history) < MaxOps
  /\ tsFile # Absent
  /\ \E k \in 1..Len(UnitsOf(tsFile)), b \in HandBodies :
       LET units == UnitsOf(tsFile)
           open == IndexOf(units[k], "{", 1)
       IN  /\ Includes(units[k], Placeholder)
           /\ tsFile' = WithUnits(tsFile,
                [units EXCEPT ![k] = SubSeq(units[k], 1, open) \o "\n    " \o b
                                       \o "\n  }"])
  /\ history' = Append(history, Done("edit", tsFile', 0, TRUE, {}))
  /\ UNCHANGED <<javaSource, tsContent, tsLocators, javaMethods, methodIdx,
                 todoMatch, implementedCount, replacedUnits, rwPc, notRewrite>>

RewriteNext ==
  \/ RunPages
  \/ AutoNoTarget
  \/ AutoBegin
  \/ AutoTest
  \/ AutoNoTodo
  \/ AutoImplement
  \/ AutoSkip
  \/ AutoEnd
  \/ HandEdit

\* ------------------------------------------------------------------------
\* The config loaders
\*   src/migrate.js 150-166 (loadConfig)
\*   src/unnamed/part_001 21-35 (01), src/02-convert-features.js 21-36 (02),
\*   src/02-convert-features.js 250-263 (04), src/unnamed/part_003 22-37
\*   (06): comments written as "//..." members
\*   src/03-generate-pages.js 435-449 (03), src/unnamed/part_002 32-46 (07),
\*   src/08-auto-implement-steps.js 20-34 (08): comments from // to the end
\*   of the line
\* ------------------------------------------------------------------------

\* /"\/\/.*":\s*"[^"]*",?\n/g
keyCommentReMigrate ==
  ReCat(<<ReLit("\"//"), ReStar(ReDot), ReLit("\":"), ReStar(ReWs),
  ReLit("\""), ReStar(ReNotSet({"\""})), ReLit("\""), ReOpt(ReLit(",")),
  ReLit("\n")>>)

\* /"\/\/[^"]*":\s*"[^"]*",?\s*/g
keyCommentRe ==
  ReCat(<<ReLit("\"//"), ReStar(ReNotSet({"\""})), ReLit("\":"), ReStar(ReWs),
  ReLit("\""), ReStar(ReNotSet({"\""})), ReLit("\""), ReOpt(ReLit(",")),
  ReStar(ReWs)>>)

\* /\/\/.*$/gm
lineCommentRe == ReCat(<<ReLit("//"), ReStar(ReDot), ReEolM>>)

\* /,\s*}/g
commaBraceRe == ReCat(<<ReLit(","), ReStar(ReWs), ReLit("}")>>)

\* /,\s*]/g
commaBracketRe == ReCat(<<ReLit(","), ReStar(ReWs), ReLit("]")>>)

\* The scripts by the way their loader removes comments
KeyCommentScripts == {"01", "02", "04", "06"}

LineCommentScripts == {"03", "07", "08"}

Scripts == {"migrate"} \cup KeyCommentScripts \cup LineCommentScripts

\* const cleanContent = content.replace(...)
CleanContent(script, text) ==
  IF script = "migrate" THEN JsReplaceAll(text, keyCommentReMigrate, FALSE, "")
  ELSE IF script \in KeyCommentScripts
  THEN JsReplaceAll(text, keyCommentRe, FALSE, "")
  ELSE JsReplaceAll(
         JsReplaceAll(JsReplaceAll(text, lineCommentRe, FALSE, ""),
                      commaBraceRe, FALSE, "}"),
         commaBracketRe, FALSE, "]")

\* JSON.parse on the documents used here: one object whose members are
\* strings without escapes.
\* /^\s*\{\s*(?:"[^"]*"\s*:\s*"[^"]*"\s*(?:,\s*"[^"]*"\s*:\s*"[^"]*"\s*)*)?\}\s*$/
jsonObjectRe ==
  ReCat(<<ReBol, ReStar(ReWs), ReLit("{"), ReStar(ReWs),
  ReOpt(ReCat(<<ReLit("\""), ReStar(ReNotSet({"\""})), ReLit("\""),
  ReStar(ReWs), ReLit(":"), ReStar(ReWs), ReLit("\""),
  ReStar(ReNotSet({"\""})), ReLit("\""), ReStar(ReWs),
  ReStar(ReCat(<<ReLit(","), ReStar(ReWs), ReLit("\""),
  ReStar(ReNotSet({"\""})), ReLit("\""), ReStar(ReWs), ReLit(":"),
  ReStar(ReWs), ReLit("\""), ReStar(ReNotSet({"\""})), ReLit("\""),
  ReStar(ReWs)>>))>>)), ReLit("}"), ReStar(ReWs), ReEol>>)

\* /"([^"]*)"\s*:\s*"([^"]*)"/g
jsonMemberRe ==
  ReCat(<<ReLit("\""), ReCap(1, ReStar(ReNotSet({"\""}))), ReLit("\""),
  ReStar(ReWs), ReLit(":"), ReStar(ReWs), ReLit("\""), ReCap(2,
  ReStar(ReNotSet({"\""}))), ReLit("\"")>>)

\* The members of the object as <<key, value>> in the order of the text
JsonMembers(ms) == [i \in 1..Len(ms) |-> <<ms[i].c[1], ms[i].c[2]>>]

\* JSON.parse(text): [ok, members], ok FALSE where JSON.parse throws
JsonParse(text) ==
  IF ReTest(jsonObjectRe, text, FALSE)
  THEN [ok |-> TRUE, members |-> JsonMembers(ReMatchAll(jsonMemberRe, text, FALSE))]
  ELSE [ok |-> FALSE, members |-> <<>>]

\* The loader of a script on the text of an existing config file
LoadConfig(script, text) == JsonParse(CleanContent(script, text))

\* ---- the config documents ----

NoFile == "<no file>"

LineComment == "  // where the Java sources are\n"

KeyComment == "  \"//\": \"edit these paths\",\n"

\* The lines a document may hold before its last member
ConfigLines ==
  { LineComment,
    KeyComment,
    "  \"rootDir\": \"/repo\",\n",
    "  \"baseUrl\": \"https://example.com\",\n" }

LastMember == "  \"target\": \"./out\"\n"

MaxConfigLines == 3

ConfigDocOf(ls) == "{\n" \o JsJoin(ls, "") \o LastMember \o "}\n"

ConfigDocs ==
  { ConfigDocOf(ls) :
      ls \in { s \in SeqsUpTo(ConfigLines, MaxConfigLines) :
                 \A i, j \in 1..Len(s) : i # j => s[i] # s[j] } }

\* Is the line a comment line: // after leading blanks
IsCommentLine(line) == StartsWith(TrimLeft(line), "//")

IsNoCommentLine(line) == ~IsCommentLine(line)

\* The document without its comment lines
WithoutCommentLines(doc) ==
  JsJoin(SelectSeq(JsSplit(doc, "\n"), IsNoCommentLine), "\n")

HasCommentLine(doc) == \E i \in 1..Len(JsSplit(doc, "\n")) : IsCommentLine(JsSplit(doc, "\n")[i])

\* ---- one run of a loader ----

ConfigInit ==
  /\ cfgScript \in Scripts
  /\ cfgContent \in ConfigDocs \cup {NoFile}
  /\ cleanContent = ""
  /\ config = <<>>
  /\ cfgPc = "start"

ConfigIdle ==
  /\ cfgScript = "migrate"
  /\ cfgContent = NoFile
  /\ cleanContent = ""
  /\ config = <<>>
  /\ cfgPc = "idle"

\* if (!fs.existsSync(configPath)) { ...; process.exit(1); }
CfgMissing ==
  /\ cfgPc = "start" /\ cfgContent = NoFile
  /\ cfgPc' = "exit"
  /\ UNCHANGED <<cfgScript, cfgContent, cleanContent, config, notConfig>>

\* content = fs.readFileSync(configPath, 'utf8'); cleanContent = ...
CfgClean ==
  /\ cfgPc = "start" /\ cfgContent # NoFile
  /\ cleanContent' = CleanContent(cfgScript, cfgContent)
  /\ cfgPc' = "parse"
  /\ UNCHANGED <<cfgScript, cfgContent, config, notConfig>>

\* config = JSON.parse(cleanContent)
CfgParsed ==
  /\ cfgPc = "parse" /\ JsonParse(cleanContent).ok
  /\ config' = JsonParse(cleanContent).members
  /\ cfgPc' = "loaded"
  /\ UNCHANGED <<cfgScript, cfgContent, cleanContent, notConfig>>

\* catch (err) { ...; process.exit(1); }
CfgParseError ==
  /\ cfgPc = "parse" /\ ~JsonParse(cleanContent).ok
  /\ cfgPc' = "exit"
  /\ UNCHANGED <<cfgScript, cfgContent, cleanContent, config, notConfig>>

ConfigNext == CfgMissing \/ CfgClean \/ CfgParsed \/ CfgParseError

\* ------------------------------------------------------------------------
\* One script run on its own: node scripts/NN-....js <config-path>
\*   the start of every script: the config loader, then the validation
\*     01 src/unnamed/part_001 21-50         02 src/02-convert-features.js 21-56
\*     03 src/03-generate-pages.js 435-471   04 src/02-convert-features.js 250-283
\*     06 src/unnamed/part_003 22-49         07 src/unnamed/part_002 32-58
\*     08 src/08-auto-implement-steps.js 20-46
\*   then the units of the run, one after the other
\*     01 src/unnamed/part_001 414-440 (directories and files to create)
\*     02 src/02-convert-features.js 126-186, 03 src/03-generate-pages.js 905-962,
\*     04 src/02-convert-features.js 480-534, 07 src/unnamed/part_002 535-565,
\*     08 src/08-auto-implement-steps.js 380-413 (processDirectory)
\* ------------------------------------------------------------------------

\* The config documents a run may find
PlainDoc == ConfigDocOf(<<"  \"rootDir\": \"/repo\",\n">>)

UrlDoc ==
  ConfigDocOf(<<"  \"rootDir\": \"/repo\",\n",
                "  \"baseUrl\": \"https://example.com\",\n">>)

CommentDoc == ConfigDocOf(<<LineComment, "  \"rootDir\": \"/repo\",\n">>)

RunDocs == {NoFile, PlainDoc, UrlDoc, CommentDoc}

\* The scripts whose sources are at hand
SourceScripts == KeyCommentScripts \cup LineCommentScripts

\* Which directory the script validates before it starts:
\* "root" source.rootDir (01), "kind" the source directory of its kind
\* (02, 03, 04), "target" target.rootDir (06), "none" (07, 08)
Validates(script) ==
  IF script = "01" THEN "root"
  ELSE IF script \in {"02", "03", "04"} THEN "kind"
  ELSE IF script = "06" THEN "target"
  ELSE "none"

\* if (!fs.existsSync(...)) { ...; process.exit(1); } after the config loaded
ValidationFails(script, rootExists, kindExists, targetExists) ==
  \/ Validates(script) = "root" /\ ~rootExists
  \/ Validates(script) = "kind" /\ ~(rootExists /\ kindExists)
  \/ Validates(script) = "target" /\ ~targetExists

\* processDirectory of 07 and 08:
\* if (!fs.existsSync(srcPath) || !fs.existsSync(tgtPath)) return;
ReturnsAtOnce(script, rootExists, kindExists, targetExists) ==
  /\ script \in {"07", "08"}
  /\ ~(rootExists /\ kindExists /\ targetExists)

\* 05-generate-fixtures.js is not among the sources; it is taken to load its
\* config the way its neighbours 04 and 06 do and to validate no directory
LoaderOf(script) == IF script = "05" THEN "04" ELSE script

\* Which loaders accept which of the documents of a run
Accepted ==
  [script \in SourceScripts \cup {"migrate"}, text \in RunDocs \ {NoFile} |->
     LoadConfig(script, text).ok]

\* Does the script's loader accept the text of the config file
Accepts(script, text) == Accepted[LoaderOf(script), text]

\* How a script starts: "configMissing" | "configError" | "sourceMissing"
\* (each ends in process.exit(1)) | "skip" | "units"
ScriptStart(script, text, rootExists, kindExists, targetExists) ==
  IF text = NoFile THEN "configMissing"
  ELSE IF ~Accepts(script, text) THEN "configError"
  ELSE IF ValidationFails(script, rootExists, kindExists, targetExists)
  THEN "sourceMissing"
  ELSE IF ReturnsAtOnce(script, rootExists, kindExists, targetExists)
  THEN "skip"
  ELSE "units"

\* What may happen to one unit (a file or directory the run handles):
\* "ok", "statError" fs.statSync or fs.mkdirSync throws, "fileError" reading,
\* converting or writing the file throws
UnitFates == {"ok", "statError", "fileError"}

MaxUnits == 3

\* The scripts whose processDirectory wraps the work on a file in try/catch
CatchingScripts == {"02", "03", "04"}

\* Is the error of the unit caught by the script's try/catch
IsCaught(script, fate) == script \in CatchingScripts /\ fate = "fileError"

ScriptInit ==
  /\ scScript \in SourceScripts
  /\ scConfig \in RunDocs
  /\ scRootExists \in BOOLEAN
  /\ scKindExists \in BOOLEAN
  /\ scTargetExists \in BOOLEAN
  /\ scUnits \in SeqsUpTo(UnitFates, MaxUnits)
  /\ scIdx = 0
  /\ scDone = {}
  /\ scErrors = {}
  /\ scPrinted = {}
  /\ scExit = "none"
  /\ scPc = "start"

ScriptIdle ==
  /\ scScript = "01"
  /\ scConfig = NoFile
  /\ scRootExists = FALSE
  /\ scKindExists = FALSE
  /\ scTargetExists = FALSE
  /\ scUnits = <<>>
  /\ scIdx = 0
  /\ scDone = {}
  /\ scErrors = {}
  /\ scPrinted = {}
  /\ scExit = "none"
  /\ scPc = "idle"

scWorld == <<scScript, scConfig, scRootExists, scKindExists, scTargetExists,
             scUnits>>

scStart ==
  ScriptStart(scScript, scConfig, scRootExists, scKindExists, scTargetExists)

\* console.log('[ERROR] ...'); process.exit(1);
ScFatal ==
  /\ scPc = "start"
  /\ scStart \in {"configMissing", "configError", "sourceMissing"}
  /\ scPrinted' = scPrinted \cup {scStart}
  /\ scExit' = "1"
  /\ scPc' = "ended"
  /\ UNCHANGED <<scWorld, scIdx, scDone, scErrors, notScript>>

\* the config is loaded and the validation passed: processDirectory starts
ScBegin ==
  /\ scPc = "start" /\ scStart = "units"
  /\ scPc' = "units"
  /\ UNCHANGED <<scWorld, scIdx, scDone, scErrors, scPrinted, scExit,
                 notScript>>

\* processDirectory returns at once
ScSkip ==
  /\ scPc = "start" /\ scStart = "skip"
  /\ scPc' = "summary"
  /\ UNCHANGED <<scWorld, scIdx, scDone, scErrors, scPrinted, scExit,
                 notScript>>

\* one unit handled without an error
ScUnitOk ==
  /\ scPc = "units" /\ scIdx < Len(scUnits)
  /\ scUnits[scIdx + 1] = "ok"
  /\ scIdx' = scIdx + 1
  /\ scDone' = scDone \cup {scIdx + 1}
  /\ UNCHANGED <<scWorld, scErrors, scPrinted, scExit, scPc, notScript>>

\* catch (err) { errors.push(...); console.log('  [ERROR] ' + ...); }
ScUnitCaught ==
  /\ scPc = "units" /\ scIdx < Len(scUnits)
  /\ scUnits[scIdx + 1] # "ok"
  /\ IsCaught(scScript, scUnits[scIdx + 1])
  /\ scIdx' = scIdx + 1
  /\ scErrors' = scErrors \cup {scIdx + 1}
  /\ scPrinted' = scPrinted \cup {"unitError"}
  /\ UNCHANGED <<scWorld, scDone, scExit, scPc, notScript>>

\* the error is thrown outside every try: the process ends on the
\* uncaught exception
ScUnitUncaught ==
  /\ scPc = "units" /\ scIdx < Len(scUnits)
  /\ scUnits[scIdx + 1] # "ok"
  /\ ~IsCaught(scScript, scUnits[scIdx + 1])
  /\ scPrinted' = scPrinted \cup {"uncaught"}
  /\ scExit' = "1"
  /\ scPc' = "ended"
  /\ UNCHANGED <<scWorld, scIdx, scDone, scErrors, notScript>>

\* all units passed: the loop is over
ScUnitsDone ==
  /\ scPc = "units" /\ scIdx = Len(scUnits)
  /\ scPc' = "summary"
  /\ UNCHANGED <<scWorld, scIdx, scDone, scErrors, scPrinted, scExit,
                 notScript>>

\* the summary is printed and the report written; the script ends
ScSummary ==
  /\ scPc = "summary"
  /\ scPrinted' = scPrinted \cup {"complete"}
  /\ scExit' = "0"
  /\ scPc' = "ended"
  /\ UNCHANGED <<scWorld, scIdx, scDone, scErrors, notScript>>

ScriptNext ==
  \/ ScFatal \/ ScBegin \/ ScSkip \/ ScUnitOk \/ ScUnitCaught
  \/ ScUnitUncaught \/ ScUnitsDone \/ ScSummary

\* ------------------------------------------------------------------------
\* migrate.js: node migrate.js [command] [options]
\*   src/migrate.js 29-45 (argument parsing), 150-166 (loadConfig),
\*   190-213 (runScript), 216-311 (main)
\* ------------------------------------------------------------------------

DefaultConfigPath == "migration-config.json"

\* The words a command line is made of
ArgTokens ==
  {"--help", "-h", "--init", "--config", "my.json", "--source", "../repo",
   "pages"}

MaxArgs == 3

\* const steps = ['setup', 'features', 'pages', 'steps', 'fixtures', 'report'];
AllSteps == <<"setup", "features", "pages", "steps", "fixtures", "report">>

StepNames == {AllSteps[i] : i \in 1..Len(AllSteps)}

\* the keys of the object commands
CommandNames == StepNames \cup {"all"}

\* runScript('NN-....js', configPath) of the step
StepScript(step) ==
  CASE step = "setup" -> "01"
    [] step = "features" -> "02"
    [] step = "pages" -> "03"
    [] step = "steps" -> "04"
    [] step = "fixtures" -> "05"
    [] step = "report" -> "06"

\* The steps the command runs, in order
StepsOf(cmd) == IF cmd = "all" THEN AllSteps ELSE <<cmd>>

\* for (const step of steps) { if (!commands[step]()) { ...; return false; } }
\* the steps still to run once a step returned ok (true or false)
AfterStepAlways(queue, ok) == Tail(queue)

AfterStep(queue, ok) == IF ok THEN Tail(queue) ELSE <<>>

\* One pass of the loop over args: the new <<configPath, command, i>>
ArgStep(as, i, path, cmd) ==
  IF as[i] = "--config" /\ i + 1 <= Len(as) /\ as[i + 1] # ""
  THEN <<as[i + 1], cmd, i + 2>>
  ELSE IF as[i] = "--init" THEN <<path, "init", i + 1>>
  ELSE IF as[i] = "--help" \/ as[i] = "-h" THEN <<path, "help", i + 1>>
  ELSE IF ~StartsWith(as[i], "-") THEN <<path, as[i], i + 1>>
  ELSE <<path, cmd, i + 1>>

\* ---- the world of a run ----

Kinds == {"features", "pages", "steps"}

\* The text of the file at the path, NoFile where there is none
FileText(path) ==
  IF path = DefaultConfigPath THEN configFile
  ELSE IF path = "my.json" THEN PlainDoc
  ELSE NoFile

\* JSON.stringify(sampleConfig, null, 2): among its members
\* baseUrl: "https://example.com"
SampleConfig == UrlDoc

\* How many things are wrong with the world of a run
Faults(w) ==
  (IF w.file # PlainDoc THEN 1 ELSE 0)
  + (IF ~w.root THEN 1 ELSE 0)
  + (IF w.kind # "none" THEN 1 ELSE 0)
  + (IF w.absent # "none" THEN 1 ELSE 0)
  + (IF w.throwing # "none" THEN 1 ELSE 0)

MaxFaults == 1

Worlds ==
  { w \in [file : RunDocs, root : BOOLEAN, kind : Kinds \cup {"none"},
           absent : StepNames \cup {"none"},
           throwing : StepNames \cup {"none"}] : Faults(w) <= MaxFaults }

\* Does the target root exist: script 01 creates it
TargetRootExists == \E i \in 1..Len(produced) : produced[i] = "setup"

\* How the script of the step starts in the world of the run
StepStart(step) ==
  ScriptStart(StepScript(step), FileText(configPath), sourceRootExists,
              missingKind # step,
              TargetRootExists)

MigrateInit ==
  /\ args \in SeqsUpTo(ArgTokens, MaxArgs)
  /\ \E w \in Worlds :
       /\ configFile = w.file
       /\ sourceRootExists = w.root
       /\ missingKind = w.kind
       /\ absentScript = w.absent
       /\ throwingStep = w.throwing
  /\ argIdx = 1
  /\ configPath = DefaultConfigPath
  /\ command = "all"
  /\ stepQueue = <<>>
  /\ started = <<>>
  /\ results = <<>>
  /\ produced = <<>>
  /\ printed = {}
  /\ exitStatus = "none"
  /\ mgPc = "args"

MigrateIdle ==
  /\ args = <<>>
  /\ configFile = NoFile
  /\ sourceRootExists = FALSE
  /\ missingKind = "none"
  /\ absentScript = "none"
  /\ throwingStep = "none"
  /\ argIdx = 1
  /\ configPath = DefaultConfigPath
  /\ command = "all"
  /\ stepQueue = <<>>
  /\ started = <<>>
  /\ results = <<>>
  /\ produced = <<>>
  /\ printed = {}
  /\ exitStatus = "none"
  /\ mgPc = "idle"

mgWorld == <<args, sourceRootExists, missingKind, absentScript, throwingStep>>

mgRun == <<stepQueue, started, results>>

\* one pass of: for (let i = 0; i < args.length; i++) { ... }
ParseArg ==
  /\ mgPc = "args" /\ argIdx <= Len(args)
  /\ configPath' = ArgStep(args, argIdx, configPath, command)[1]
  /\ command' = ArgStep(args, argIdx, configPath, command)[2]
  /\ argIdx' = ArgStep(args, argIdx, configPath, command)[3]
  /\ UNCHANGED <<mgWorld, configFile, mgRun, produced, printed, exitStatus,
                 mgPc, notMigrate>>

\* the loop is over: main() is called
ArgsDone ==
  /\ mgPc = "args" /\ argIdx > Len(args)
  /\ mgPc' = "main"
  /\ UNCHANGED <<mgWorld, configFile, argIdx, configPath, command, mgRun,
                 produced, printed, exitStatus, notMigrate>>

\* if (command === 'help') { showHelp(); return; }
MainHelp ==
  /\ mgPc = "main" /\ command = "help"
  /\ printed' = printed \cup {"help"}
  /\ exitStatus' = "0"
  /\ mgPc' = "ended"
  /\ UNCHANGED <<mgWorld, configFile, argIdx, configPath, command, mgRun,
                 produced, notMigrate>>

\* if (command === 'init') { initConfig(); return; }
MainInit ==
  /\ mgPc = "main" /\ command = "init"
  /\ configFile' = SampleConfig
  /\ produced' = Append(produced, DefaultConfigPath)
  /\ printed' = printed \cup {"created"}
  /\ exitStatus' = "0"
  /\ mgPc' = "ended"
  /\ UNCHANGED <<mgWorld, argIdx, configPath, command, mgRun, notMigrate>>

\* How main goes on after the help and init commands: "configMissing" |
\* "configError" | "sourceMissing" | "unknownCommand" (each ends in
\* process.exit(1)) | "run"
MainCheck ==
  IF FileText(configPath) = NoFile THEN "configMissing"
  ELSE IF ~Accepts("migrate", FileText(configPath)) THEN "configError"
  ELSE IF ~sourceRootExists THEN "sourceMissing"
  ELSE IF command \notin CommandNames THEN "unknownCommand"
  ELSE "run"

\* loadConfig or main ends in process.exit(1)
MainFatal ==
  /\ mgPc = "main" /\ command \notin {"help", "init"}
  /\ MainCheck # "run"
  /\ printed' = printed \cup {MainCheck}
  /\ exitStatus' = "1"
  /\ mgPc' = "ended"
  /\ UNCHANGED <<mgWorld, configFile, argIdx, configPath, command, mgRun,
                 produced, notMigrate>>

\* const success = commands[command]();  the command starts
MainRun ==
  /\ mgPc = "main" /\ command \notin {"help", "init"}
  /\ MainCheck = "run"
  /\ stepQueue' = StepsOf(command)
  /\ mgPc' = "run"
  /\ UNCHANGED <<mgWorld, configFile, argIdx, configPath, command, started,
                 results, produced, printed, exitStatus, notMigrate>>

\* Does the script of the step end the process with process.exit(1)
StepIsFatal(step) ==
  StepStart(step) \in {"configMissing", "configError", "sourceMissing"}

\* runScript returns false: the script file is not there, or
\* require(scriptPath) threw
StepFails(step) ==
  \/ absentScript = step
  \/ throwingStep = step /\ ~StepIsFatal(step)

\* the step's script calls process.exit(1): the process ends there
StepExits ==
  /\ mgPc = "run" /\ stepQueue # <<>>
  /\ absentScript # Head(stepQueue)
  /\ StepIsFatal(Head(stepQueue))
  /\ started' = Append(started, Head(stepQueue))
  /\ printed' = printed \cup {StepStart(Head(stepQueue))}
  /\ exitStatus' = "1"
  /\ mgPc' = "ended"
  /\ UNCHANGED <<mgWorld, configFile, argIdx, configPath, command, stepQueue,
                 results, produced, notMigrate>>

\* runScript returns false; under all: console.error('[ERROR] Migration
\* failed at step: ' + step); return false;
StepFailed ==
  /\ mgPc = "run" /\ stepQueue # <<>>
  /\ StepFails(Head(stepQueue))
  /\ started' = Append(started, Head(stepQueue))
  /\ results' = Append(results, FALSE)
  /\ printed' = printed \cup
       (IF command = "all" THEN {"scriptError", "failedAt"}
        ELSE {"scriptError"})
  /\ stepQueue' = AfterStep(stepQueue, FALSE)
  /\ UNCHANGED <<mgWorld, configFile, argIdx, configPath, command, produced,
                 exitStatus, mgPc, notMigrate>>

\* the script ran to its end: runScript returns true
StepOk ==
  /\ mgPc = "run" /\ stepQueue # <<>>
  /\ ~StepFails(Head(stepQueue))
  /\ ~StepIsFatal(Head(stepQueue))
  /\ started' = Append(started, Head(stepQueue))
  /\ results' = Append(results, TRUE)
  /\ produced' = Append(produced, Head(stepQueue))
  /\ stepQueue' = AfterStep(stepQueue, TRUE)
  /\ UNCHANGED <<mgWorld, configFile, argIdx, configPath, command, printed,
                 exitStatus, mgPc, notMigrate>>

\* Did the command return true
Success == \A i \in 1..Len(results) : results[i]

\* if (success && command === 'all') { console.log('  MIGRATION COMPLETE') }
MainEnd ==
  /\ mgPc = "run" /\ stepQueue = <<>>
  /\ printed' = printed \cup
       (IF Success /\ command = "all" THEN {"complete"} ELSE {})
  /\ exitStatus' = "0"
  /\ mgPc' = "ended"
  /\ UNCHANGED <<mgWorld, configFile, argIdx, configPath, command, mgRun,
                 produced, notMigrate>>

MigrateNext ==
  \/ ParseArg \/ ArgsDone \/ MainHelp \/ MainInit \/ MainFatal \/ MainRun
  \/ StepExits \/ StepFailed \/ StepOk \/ MainEnd

\* ------------------------------------------------------------------------
\* The name of a target directory
\*   src/unnamed/part_001 52-63 (toKebabCase), 92-104 (convertFolderStructure)
\*   src/02-convert-features.js 66-81 (convertFolderName), 137-148
\*   src/03-generate-pages.js 916-924, src/02-convert-features.js 490-499
\*   (processDirectory of 03 and 04)
\* ------------------------------------------------------------------------

\* /([a-z])([A-Z])/g
lowerUpperRe ==
  ReCat(<<ReCap(1, ReSet(LowerChars)), ReCap(2, ReSet(UpperChars))>>)

\* /([A-Z]+)([A-Z][a-z])/g
upperRunRe ==
  ReCat(<<ReCap(1, RePlus(ReSet(UpperChars))), ReCap(2,
  ReCat(<<ReSet(UpperChars), ReSet(LowerChars)>>))>>)

\* /\s+/g
spaceRunRe == RePlus(ReWs)

\* /\.+/g
dotRunRe == RePlus(ReLit("."))

\* /_+/g
underscoreRunRe == RePlus(ReLit("_"))

\* /--+/g
dashRunRe == ReCat(<<ReLit("-"), RePlus(ReLit("-"))>>)

\* /^-|-$/g
edgeDashRe ==
  ReAlt(<<ReCat(<<ReBol, ReLit("-")>>), ReCat(<<ReLit("-"), ReEol>>)>>)

\* str.replace(re, text) with the g flag and $n in the text, for a pattern
\* that matches no empty string
RECURSIVE JsReplaceEachFrom(_, _, _, _)
ReplaceEachAt(s, r, text, from, m) ==
  IF ~m.ok \/ m.e <= m.b THEN SubSeq(s, from, Len(s))
  ELSE SubSeq(s, from, m.b - 1) \o ExpandFrom(text, 1, s, m, ReGroupCount(r))
         \o JsReplaceEachFrom(s, r, text, m.e)

JsReplaceEachFrom(s, r, text, from) ==
  ReplaceEachAt(s, r, text, from, ReSearchFrom(r, s, from, FALSE))

JsReplaceEach(s, r, text) == JsReplaceEachFrom(s, r, text, 1)

\* toKebabCase of script 01, and the same chain in convertFolderName of 02
toKebabCase(str) ==
  ToLowerCase(
    JsReplaceEach(
      JsReplaceEach(
        JsReplaceEach(
          JsReplaceEach(
            JsReplaceEach(
              JsReplaceEach(
                JsReplaceEach(str, lowerUpperRe, "$1-$2"),
                upperRunRe, "$1-$2"),
              spaceRunRe, "-"),
            dotRunRe, "-"),
          underscoreRunRe, "-"),
        dashRunRe, "-"),
      edgeDashRe, ""))

\* folderMapping[name]: the mapped name, "" (undefined) where there is none
MappedName == "mapped"

FolderMappingOf(name, mapped) == IF mapped THEN MappedName ELSE ""

\* convertFolderStructure of 01 on one part of the path:
\* if (folderMapping[part]) return folderMapping[part]; return toKebabCase(part)
ConvertPart(part, mapped) ==
  IF FolderMappingOf(part, mapped) # "" THEN FolderMappingOf(part, mapped)
  ELSE toKebabCase(part)

\* convertFolderName of 02
convertFolderName(name, mapped) ==
  IF FolderMappingOf(name, mapped) # "" THEN FolderMappingOf(name, mapped)
  ELSE toKebabCase(name)

\* const moduleDir = item.toLowerCase();  in 03 and 04
moduleDir(item) == ToLowerCase(item)

\* ---- one source directory under script 01 and the script of its kind ----

NameChars == {"a", "P", "Q", "_", " "}

MaxName == 3

FolderNames == StringsUpTo(NameChars, MaxName) \ {""}

FolderInit ==
  /\ fdName \in FolderNames
  /\ fdKind \in Kinds
  /\ fdMapped \in BOOLEAN
  /\ fdCreated = Absent
  /\ fdTarget = Absent
  /\ fdPc = "setup"

FolderIdle ==
  /\ fdName = "a"
  /\ fdKind = "features"
  /\ fdMapped = FALSE
  /\ fdCreated = Absent
  /\ fdTarget = Absent
  /\ fdPc = "idle"

\* script 01 creates the directory for the source folder
FdSetup ==
  /\ fdPc = "setup"
  /\ fdCreated' = ConvertPart(fdName, fdMapped)
  /\ fdPc' = "generate"
  /\ UNCHANGED <<fdName, fdKind, fdMapped, fdTarget, notFolder>>

\* script 02 writes the feature files of the folder
FdFeatures ==
  /\ fdPc = "generate" /\ fdKind = "features"
  /\ fdTarget' = convertFolderName(fdName, fdMapped)
  /\ fdPc' = "done"
  /\ UNCHANGED <<fdName, fdKind, fdMapped, fdCreated, notFolder>>

\* script 03 writes the page files of the folder
FdPages ==
  /\ fdPc = "generate" /\ fdKind = "pages"
  /\ fdTarget' = moduleDir(fdName)
  /\ fdPc' = "done"
  /\ UNCHANGED <<fdName, fdKind, fdMapped, fdCreated, notFolder>>

\* script 04 writes the step files of the folder
FdSteps ==
  /\ fdPc = "generate" /\ fdKind = "steps"
  /\ fdTarget' = moduleDir(fdName)
  /\ fdPc' = "done"
  /\ UNCHANGED <<fdName, fdKind, fdMapped, fdCreated, notFolder>>

FolderNext == FdSetup \/ FdFeatures \/ FdPages \/ FdSteps

\* ------------------------------------------------------------------------
\* One run of script 03 over the page files of the source tree
\*   src/03-generate-pages.js 473-479 (totalFiles, generatedFiles,
\*   conversionStats), 663-765 (parseJavaPageClass updates conversionStats),
\*   925-962 (processDirectory on a page file), 983-997 (the report)
\* and script 06 over the page files it generated
\*   src/unnamed/part_003 81-91 (countTodos, hasXPath), 106-126
\* ------------------------------------------------------------------------

\* The page files a source tree may hold
TradePage ==
  PageHeader
  \o "  public static final By trade = By.xpath(xpathExpression: \"//button[contains(text(),'Trade')]\");\n"
  \o "  public static final By row = By.xpath(\"//table//tr[2]/td\");\n"
  \o "}\n"

UserPage ==
  PageHeader
  \o "  @FindBy(id = \"user\")\n  private WebElement userField;\n"
  \o "}\n"

\* constants kept in an interface: the text declares no class
LocatorsPage ==
  "package pages;\n\npublic interface LoginLocatorsPage {\n"
  \o "  public static final By save = By.xpath(\"//button[@id='save']\");\n"
  \o "}\n"

PageTexts == {TradePage, UserPage, LocatorsPage}

\* parseJavaPageClass of the second version on the page files
ParsedPages == [text \in PageTexts |-> parseJavaPageClass(2, text)]

ConversionTypes == {"semantic", "css", "xpath"}

\* parsed.locators.filter(l => l.type === type).length
CountType(locs, type) ==
  Cardinality({i \in 1..Len(locs) : locs[i].type = type})

\* conversionStats[conversion.type]++ for every locator the parser pushed
StatsAfter(stats, locs) ==
  [type \in ConversionTypes |-> stats[type] + CountType(locs, type)]

\* if (parsed.className): is the file generated and listed
IsListed(parsed) == parsed.className # ""

\* the entry generatedFiles.push adds for the file
FileEntry(text, parsed) ==
  [source |-> text, locators |-> Len(parsed.locators),
   methods |-> Len(parsed.methods),
   semantic |-> CountType(parsed.locators, "semantic"),
   css |-> CountType(parsed.locators, "css"),
   xpath |-> CountType(parsed.locators, "xpath")]

MaxFiles == 3

\* a page file of the tree: its text, and whether it can be written
PageFiles == [text : PageTexts, writable : BOOLEAN]

NoReport == [written |-> FALSE]

\* The page file script 03 writes for each source file it lists
GeneratedPages ==
  [text \in PageTexts |-> generateTypeScriptPage(ParsedPages[text], ModuleName)]

\* script 06: content.match(/TODO/g), matches ? matches.length : 0
countTodos(fileText) == Len(ReMatchAll(ReLit("TODO"), fileText, FALSE))

\* script 06: hasXPath
hasXPath(fileText) ==
  \/ Includes(fileText, "xpath=")
  \/ Includes(fileText, "XPath")
  \/ Includes(fileText, "TODO: Convert XPath")

\* script 06: status: (todos === 0 && !xpath) ? 'COMPLETE' : 'NEEDS REVIEW'
PageStatus(todos, withXPath) ==
  IF todos = 0 /\ ~withXPath THEN "COMPLETE" ELSE "NEEDS REVIEW"

\* script 06: the entry report.pages.files.push adds for the file
ReviewEntryOf(source, todos, withXPath) ==
  [file |-> source, todos |-> todos, hasXPath |-> withXPath,
   status |-> PageStatus(todos, withXPath)]

ReviewEntry(source, fileText) ==
  ReviewEntryOf(source, countTodos(fileText), hasXPath(fileText))

\* script 06 on the page files script 03 generated
ReviewOf == [text \in PageTexts |-> ReviewEntry(text, GeneratedPages[text])]

\* report.pages after the entry is added
ReviewAfter(review, entry) ==
  [total |-> review.total + 1,
   needsReview |->
     IF entry.todos > 0 \/ entry.hasXPath
     THEN review.needsReview + 1 ELSE review.needsReview,
   files |-> Append(review.files, entry)]

\* script 06: report.pages before the loop
NoReview == [total |-> 0, needsReview |-> 0, files |-> <<>>]

\* The source files whose page file is in the target directory
Generated == { generatedFiles[i].source : i \in 1..Len(generatedFiles) }

\* The source files whose page file script 06 has analysed
Reviewed == { pgReview.files[i].file : i \in 1..Len(pgReview.files) }

PagesInit ==
  /\ pgFiles \in SeqsUpTo(PageFiles, MaxFiles)
  /\ pgIdx = 0
  /\ totalFiles = 0
  /\ generatedFiles = <<>>
  /\ conversionStats = [type \in ConversionTypes |-> 0]
  /\ report = NoReport
  /\ pgReview = NoReview
  /\ pgPc = "files"

PagesIdle ==
  /\ pgFiles = <<>>
  /\ pgIdx = 0
  /\ totalFiles = 0
  /\ generatedFiles = <<>>
  /\ conversionStats = [type \in ConversionTypes |-> 0]
  /\ report = NoReport
  /\ pgReview = NoReview
  /\ pgPc = "idle"

pgFile == pgFiles[pgIdx + 1]

pgParsed == ParsedPages[pgFile.text]

\* the file is parsed, generated, written and listed
PgGenerated ==
  /\ pgPc = "files" /\ pgIdx < Len(pgFiles)
  /\ IsListed(pgParsed) /\ pgFile.writable
  /\ conversionStats' = StatsAfter(conversionStats, pgParsed.locators)
  /\ totalFiles' = totalFiles + 1
  /\ generatedFiles' = Append(generatedFiles, FileEntry(pgFile.text, pgParsed))
  /\ pgIdx' = pgIdx + 1
  /\ UNCHANGED <<pgFiles, report, pgReview, pgPc, notPages>>

\* the file is parsed; parsed.className is empty: nothing is generated
PgNoClass ==
  /\ pgPc = "files" /\ pgIdx < Len(pgFiles)
  /\ ~IsListed(pgParsed)
  /\ conversionStats' = StatsAfter(conversionStats, pgParsed.locators)
  /\ pgIdx' = pgIdx + 1
  /\ UNCHANGED <<pgFiles, totalFiles, generatedFiles, report, pgReview, pgPc, notPages>>

\* the file is parsed; fs.writeFileSync throws into the catch
PgWriteError ==
  /\ pgPc = "files" /\ pgIdx < Len(pgFiles)
  /\ IsListed(pgParsed) /\ ~pgFile.writable
  /\ conversionStats' = StatsAfter(conversionStats, pgParsed.locators)
  /\ pgIdx' = pgIdx + 1
  /\ UNCHANGED <<pgFiles, totalFiles, generatedFiles, report, pgReview, pgPc, notPages>>

\* fs.writeFileSync(reportPath, JSON.stringify(report, null, 2))
PgReport ==
  /\ pgPc = "files" /\ pgIdx = Len(pgFiles)
  /\ report' = [written |-> TRUE, totalFiles |-> totalFiles,
                conversionStats |-> conversionStats,
                files |-> generatedFiles]
  /\ pgPc' = "reported"
  /\ UNCHANGED <<pgFiles, pgIdx, totalFiles, generatedFiles, conversionStats,
                 pgReview, notPages>>

\* script 06, pageFiles.forEach(file => ...): one page file of the target
\* directory, in the order readdirSync lists them
PgAnalyse ==
  /\ pgPc = "reported"
  /\ \E text \in Generated \ Reviewed :
       pgReview' = ReviewAfter(pgReview, ReviewOf[text])
  /\ UNCHANGED <<pgFiles, pgIdx, totalFiles, generatedFiles, conversionStats,
                 report, pgPc, notPages>>

\* script 06: every page file has been analysed
PgAnalysed ==
  /\ pgPc = "reported"
  /\ Generated = Reviewed
  /\ pgPc' = "analysed"
  /\ UNCHANGED <<pgFiles, pgIdx, totalFiles, generatedFiles, conversionStats,
                 report, pgReview, notPages>>

PagesNext ==
  PgGenerated \/ PgNoClass \/ PgWriteError \/ PgReport \/ PgAnalyse \/ PgAnalysed

\* ------------------------------------------------------------------------
\* The files of one source directory under a generator (script 03 or 04)
\* and then under its auto-implement script (script 07 or 08)
\*   src/03-generate-pages.js 896-902 (toKebabCase), 912-936
\*   src/02-convert-features.js 472-478 (toKebabCase), 488-508
\*   src/unnamed/part_002 541-563, src/08-auto-implement-steps.js 386-410
\* ------------------------------------------------------------------------

\* /Page\.java$/
pageJavaRe ==
  ReCat(<<ReLit("Page.java"), ReEol>>)

\* /Steps?\.java$/
stepsJavaRe ==
  ReCat(<<ReLit("Step"), ReOpt(ReLit("s")), ReLit(".java"), ReEol>>)

\* script 03: toKebabCase
toKebabCasePage(str) ==
  ToLowerCase(
    JsReplaceEach(
      JsReplaceEach(JsReplaceFirst(str, pageJavaRe, FALSE, ""),
                    lowerUpperRe, "$1-$2"),
      upperRunRe, "$1-$2"))

\* script 04: toKebabCase
toKebabCaseSteps(str) ==
  ToLowerCase(
    JsReplaceEach(
      JsReplaceEach(JsReplaceFirst(str, stepsJavaRe, FALSE, ""),
                    lowerUpperRe, "$1-$2"),
      upperRunRe, "$1-$2"))

\* const tsFileName = toKebabCase(item) + '.page.ts' (03), '.steps.ts' (04)
GeneratedName(kind, item) ==
  IF kind = "pages" THEN toKebabCasePage(item) \o ".page.ts"
  ELSE toKebabCaseSteps(item) \o ".steps.ts"

\* scripts 07 and 08: const tsFileName = item.replace(/Page\.java$/i, '')
\*   .replace(/([a-z])([A-Z])/g, '$1-$2').toLowerCase() + '.page.ts'
LookedName(kind, item) ==
  IF kind = "pages"
  THEN ToLowerCase(JsReplaceEach(JsReplaceFirst(item, pageJavaRe, TRUE, ""),
                                 lowerUpperRe, "$1-$2")) \o ".page.ts"
  ELSE ToLowerCase(JsReplaceEach(JsReplaceFirst(item, stepsJavaRe, TRUE, ""),
                                 lowerUpperRe, "$1-$2")) \o ".steps.ts"

\* item.endsWith('Page.java') || item.endsWith('page.java'), and
\* item.endsWith('Steps.java') || item.endsWith('Step.java')
IsSourceOf(kind, item) ==
  IF kind = "pages"
  THEN EndsWith(item, "Page.java") \/ EndsWith(item, "page.java")
  ELSE EndsWith(item, "Steps.java") \/ EndsWith(item, "Step.java")

\* ---- the directories ----

Stems == {"aa", "Aa", "aB", "ABa"}

Suffixes(kind) ==
  IF kind = "pages" THEN {"Page.java", "page.java"}
  ELSE {"Steps.java", "Step.java"}

\* The file names a source directory of the kind may hold
ItemNames(kind) ==
  { stem \o suffix : stem \in Stems, suffix \in Suffixes(kind) } \cup {"Notes.txt"}

\* A file: its name, and whether the generator finds something in it to
\* generate from (parsed.className, parsed.steps.length > 0)
Items(kind) == [name : ItemNames(kind), convertible : BOOLEAN]

MaxItems == 2

\* A directory listing: the names are distinct
Listings(kind) ==
  { l \in SeqsUpTo(Items(kind), MaxItems) :
      \A i, j \in 1..Len(l) : i # j => l[i].name # l[j].name }

NamesInit ==
  /\ nmKind \in {"pages", "steps"}
  /\ nmItems \in Listings(nmKind)
  /\ nmIdx = 0
  /\ nmWritten = <<>>
  /\ nmLooked = <<>>
  /\ nmPc = "generate"

NamesIdle ==
  /\ nmKind = "pages"
  /\ nmItems = <<>>
  /\ nmIdx = 0
  /\ nmWritten = <<>>
  /\ nmLooked = <<>>
  /\ nmPc = "idle"

nmItem == nmItems[nmIdx + 1]

\* scripts 03, 04: the file is parsed and fs.writeFileSync(tgtFilePath, tsContent)
NmGenerate ==
  /\ nmPc = "generate" /\ nmIdx < Len(nmItems)
  /\ IsSourceOf(nmKind, nmItem.name) /\ nmItem.convertible
  /\ nmWritten' = Append(nmWritten, GeneratedName(nmKind, nmItem.name))
  /\ nmIdx' = nmIdx + 1
  /\ UNCHANGED <<nmKind, nmItems, nmLooked, nmPc, notNames>>

\* scripts 03, 04: not a source of the kind, or nothing to generate from
NmPass ==
  /\ nmPc = "generate" /\ nmIdx < Len(nmItems)
  /\ ~(IsSourceOf(nmKind, nmItem.name) /\ nmItem.convertible)
  /\ nmIdx' = nmIdx + 1
  /\ UNCHANGED <<nmKind, nmItems, nmWritten, nmLooked, nmPc, notNames>>

\* the generator is through; the auto-implement script starts
NmGenerated ==
  /\ nmPc = "generate" /\ nmIdx = Len(nmItems)
  /\ nmPc' = "implement"
  /\ nmIdx' = 0
  /\ UNCHANGED <<nmKind, nmItems, nmWritten, nmLooked, notNames>>

\* scripts 07, 08: if (fs.existsSync(tsFilePath)) the file is updated
NmFound ==
  /\ nmPc = "implement" /\ nmIdx < Len(nmItems)
  /\ IsSourceOf(nmKind, nmItem.name)
  /\ InSeq(nmWritten, LookedName(nmKind, nmItem.name))
  /\ nmLooked' = Append(nmLooked,
       [item |-> nmItem, name |-> LookedName(nmKind, nmItem.name), found |-> TRUE])
  /\ nmIdx' = nmIdx + 1
  /\ UNCHANGED <<nmKind, nmItems, nmWritten, nmPc, notNames>>

\* scripts 07, 08: no such file, the item is passed over in silence
NmNotFound ==
  /\ nmPc = "implement" /\ nmIdx < Len(nmItems)
  /\ IsSourceOf(nmKind, nmItem.name)
  /\ ~InSeq(nmWritten, LookedName(nmKind, nmItem.name))
  /\ nmLooked' = Append(nmLooked,
       [item |-> nmItem, name |-> LookedName(nmKind, nmItem.name), found |-> FALSE])
  /\ nmIdx' = nmIdx + 1
  /\ UNCHANGED <<nmKind, nmItems, nmWritten, nmPc, notNames>>

\* scripts 07, 08: not a source of the kind
NmIgnore ==
  /\ nmPc = "implement" /\ nmIdx < Len(nmItems)
  /\ ~IsSourceOf(nmKind, nmItem.name)
  /\ nmIdx' = nmIdx + 1
  /\ UNCHANGED <<nmKind, nmItems, nmWritten, nmLooked, nmPc, notNames>>

\* the auto-implement script is through
NmDone ==
  /\ nmPc = "implement" /\ nmIdx = Len(nmItems)
  /\ nmPc' = "done"
  /\ UNCHANGED <<nmKind, nmItems, nmIdx, nmWritten, nmLooked, notNames>>

NamesNext ==
  NmGenerate \/ NmPass \/ NmGenerated \/ NmFound \/ NmNotFound \/ NmIgnore \/ NmDone

\* ------------------------------------------------------------------------
\* One Java steps file under script 04 (the stubs) and then script 08
\*   src/02-convert-features.js 292-298 (convertStepDescription), 301-318
\*   (parseJavaParams), 321-345 (inferStepType), 348-372 (inferPageFixture),
\*   375-439 (parseJavaStepsFile), 442-469 (generateTypeScriptSteps)
\*   src/08-auto-implement-steps.js 255-268 (matchStepPattern), 273-315
\*   (parseJavaSteps), 320-375 (updateTypeScriptStepFile)
\* ------------------------------------------------------------------------

\* /public\s+class\s+(\w+)/
stepsClassRe ==
  ReCat(<<ReLit("public"), RePlus(ReWs), ReLit("class"), RePlus(ReWs),
  ReCap(1, RePlus(ReWord))>>)

\* /@QAFTestStep\s*\(\s*description\s*=\s*"(.+?)"\s*\)\s*public\s+(?:void|boolean|String|\w+)\s+(\w+)\s*\(([^)]*)\)/g
qafStepRegex ==
  ReCat(<<ReLit("@QAFTestStep"), ReStar(ReWs), ReLit("("), ReStar(ReWs),
  ReLit("description"), ReStar(ReWs), ReLit("="), ReStar(ReWs), ReLit("\""),
  ReCap(1, ReLazyPlus(ReDot)), ReLit("\""), ReStar(ReWs), ReLit(")"),
  ReStar(ReWs), ReLit("public"), RePlus(ReWs), ReAlt(<<ReLit("void"),
  ReLit("boolean"), ReLit("String"), RePlus(ReWord)>>), RePlus(ReWs), ReCap(2,
  RePlus(ReWord)), ReStar(ReWs), ReLit("("), ReCap(3,
  ReStar(ReNotSet({")"}))), ReLit(")")>>)

\* /@(Given|When|Then)\s*\(\s*"(.+?)"\s*\)\s*public\s+(?:void|boolean|String|\w+)\s+(\w+)\s*\(([^)]*)\)/g
cucumberRegex ==
  ReCat(<<ReLit("@"), ReCap(1, ReAlt(<<ReLit("Given"), ReLit("When"),
  ReLit("Then")>>)), ReStar(ReWs), ReLit("("), ReStar(ReWs), ReLit("\""),
  ReCap(2, ReLazyPlus(ReDot)), ReLit("\""), ReStar(ReWs), ReLit(")"),
  ReStar(ReWs), ReLit("public"), RePlus(ReWs), ReAlt(<<ReLit("void"),
  ReLit("boolean"), ReLit("String"), RePlus(ReWord)>>), RePlus(ReWs), ReCap(3,
  RePlus(ReWord)), ReStar(ReWs), ReLit("("), ReCap(4,
  ReStar(ReNotSet({")"}))), ReLit(")")>>)

\* /@(?:QAFTestStep\s*\(\s*description\s*=\s*|Given|When|Then)\s*\(\s*["'](.+?)["']\s*\)\s*(?:public\s+)?(?:void|boolean|String|\w+)\s+(\w+)\s*\(([^)]*)\)\s*\{/g
stepRegex ==
  ReCat(<<ReLit("@"), ReAlt(<<ReCat(<<ReLit("QAFTestStep"), ReStar(ReWs),
  ReLit("("), ReStar(ReWs), ReLit("description"), ReStar(ReWs), ReLit("="),
  ReStar(ReWs)>>), ReLit("Given"), ReLit("When"), ReLit("Then")>>),
  ReStar(ReWs), ReLit("("), ReStar(ReWs), ReQuote, ReCap(1,
  ReLazyPlus(ReDot)), ReQuote, ReStar(ReWs), ReLit(")"), ReStar(ReWs),
  ReOpt(ReCat(<<ReLit("public"), RePlus(ReWs)>>)), ReAlt(<<ReLit("void"),
  ReLit("boolean"), ReLit("String"), RePlus(ReWord)>>), RePlus(ReWs), ReCap(2,
  RePlus(ReWord)), ReStar(ReWs), ReLit("("), ReCap(3,
  ReStar(ReNotSet({")"}))), ReLit(")"), ReStar(ReWs), ReLit("{")>>)

\* /\{(\d+)\}/g
digitPlaceholderRe ==
  ReCat(<<ReLit("{"), ReCap(1, RePlus(ReDigit)), ReLit("}")>>)

\* /\{word\}/g
wordPlaceholderRe ==
  ReLit("{word}")

\* /\{int\}/g
intPlaceholderRe ==
  ReLit("{int}")

\* /Steps?$/
stepsSuffixRe ==
  ReCat(<<ReLit("Step"), ReOpt(ReLit("s")), ReEol>>)

\* ---- script 04 ----

\* convertStepDescription
convertStepDescription(desc) ==
  JsReplaceAll(
    JsReplaceAll(JsReplaceAll(desc, digitPlaceholderRe, FALSE, "{string}"),
                 wordPlaceholderRe, FALSE, "{string}"),
    intPlaceholderRe, FALSE, "{int}")

\* the tsType of a Java type
TsTypeOf(type) ==
  IF type \in {"int", "Integer", "long", "Long"} THEN "number"
  ELSE IF type \in {"boolean", "Boolean"} THEN "boolean"
  ELSE "string"

\* { name, type: tsType } for every parameter
JavaParamsOf(parts) ==
  [i \in 1..Len(parts) |->
     [name |-> parts[i][Len(parts[i])], type |-> TsTypeOf(parts[i][1])]]

\* parseJavaParams
parseJavaParams(ps) ==
  IF JsTrim(ps) = "" THEN <<>>
  ELSE JavaParamsOf(SplitParams(JsSplit(ps, ",")))

\* the tests of inferStepType on lowerDesc
StepTypeOf(lowerDesc) ==
  IF \/ StartsWith(lowerDesc, "user is")
     \/ StartsWith(lowerDesc, "user has")
     \/ StartsWith(lowerDesc, "given")
     \/ Includes(lowerDesc, "is on")
     \/ Includes(lowerDesc, "exists")
     \/ Includes(lowerDesc, "logged in")
  THEN "Given"
  ELSE IF \/ StartsWith(lowerDesc, "user should")
          \/ StartsWith(lowerDesc, "then")
          \/ StartsWith(lowerDesc, "verify")
          \/ Includes(lowerDesc, "should see")
          \/ Includes(lowerDesc, "should be")
          \/ Includes(lowerDesc, "should not")
          \/ Includes(lowerDesc, "is displayed")
          \/ Includes(lowerDesc, "is visible")
  THEN "Then"
  ELSE "When"

\* inferStepType
inferStepType(desc) == StepTypeOf(ToLowerCase(desc))

\* the mapping of inferPageFixture, in the order of its entries
FixtureMapping ==
  << <<"Account", "accountsPage">>, <<"Accounts", "accountsPage">>,
     <<"Login", "loginPage">>, <<"Admin", "adminPage">>,
     <<"Order", "ordersPage">>, <<"Orders", "ordersPage">>,
     <<"Security", "securitiesPage">>, <<"Securities", "securitiesPage">>,
     <<"Transaction", "transactionsPage">>,
     <<"Transactions", "transactionsPage">>,
     <<"Dashboard", "dashboardPage">> >>

\* the entries of the mapping whose key pageName includes
FixtureHits(pageName) ==
  { k \in 1..Len(FixtureMapping) : Includes(pageName, FixtureMapping[k][1]) }

\* the fixture of pageName, hits the entries that apply
FixtureOf(pageName, hits) ==
  IF hits # {} THEN FixtureMapping[FirstOr(hits, 0)][2]
  ELSE ToLowerCase(SubSeq(pageName, 1, 1))
         \o SubSeq(pageName, 2, Len(pageName)) \o "Page"

FixtureOfPage(pageName) == FixtureOf(pageName, FixtureHits(pageName))

\* inferPageFixture
inferPageFixture(cn) == FixtureOfPage(JsReplaceFirst(cn, stepsSuffixRe, FALSE, ""))

\* result.steps.push({...}) for a step of the given type
StepOf(stepType, desc, methodName, ps, cn) ==
  [description |-> convertStepDescription(desc),
   originalDescription |-> desc,
   methodName |-> methodName,
   stepType |-> stepType,
   params |-> parseJavaParams(ps),
   pageFixture |-> inferPageFixture(cn)]

\* the groups of a match of qafStepRegex or cucumberRegex as
\* <<stepType, description, methodName, params>>
QafGroups(m) == <<inferStepType(m.c[1]), m.c[1], m.c[2], m.c[3]>>

CucumberGroups(m) == <<m.c[1], m.c[2], m.c[3], m.c[4]>>

\* the steps of the matched annotations
StepsOfGroups(gs, cn) ==
  [i \in 1..Len(gs) |-> StepOf(gs[i][1], gs[i][2], gs[i][3], gs[i][4], cn)]

\* the groups of the matches of both loops, the @QAFTestStep ones first
AnnotationGroups(qaf, cuc) ==
  [i \in 1..Len(qaf) |-> QafGroups(qaf[i])]
    \o [i \in 1..Len(cuc) |-> CucumberGroups(cuc[i])]

\* result.className
StepsClassName(classMatch) == IF classMatch.ok THEN classMatch.c[1] ELSE ""

ParsedStepsFile(cn, gs) == [className |-> cn, steps |-> StepsOfGroups(gs, cn)]

\* parseJavaStepsFile: the @QAFTestStep steps, then the Cucumber ones
parseJavaStepsFile(text) ==
  ParsedStepsFile(StepsClassName(ReSearch(stepsClassRe, text, FALSE)),
                  AnnotationGroups(ReMatchAll(qafStepRegex, text, FALSE),
                                   ReMatchAll(cucumberRegex, text, FALSE)))

\* Array.from(parsed.pageFixtures): the fixtures in the order of insertion
RECURSIVE FixturesOf(_)
\* pageFixtures.add(pageFixture)
AddFixture(before, last) ==
  IF InSeq(before, last) THEN before ELSE Append(before, last)

FixturesOf(steps) ==
  IF steps = <<>> THEN <<>>
  ELSE AddFixture(FixturesOf(SubSeq(steps, 1, Len(steps) - 1)),
                  steps[Len(steps)].pageFixture)

\* step.params.map(p => p.name + ': ' + p.type).join(', ')
StepParamList(ps) ==
  JsJoin([i \in 1..Len(ps) |-> ps[i].name \o ": " \o ps[i].type], ", ")

\* const allParams = stepParams ? fixtureParams + ', ' + stepParams
\*                               : fixtureParams
AllParams(fixtureParams, stepParams) ==
  IF stepParams # "" THEN fixtureParams \o ", " \o stepParams
  ELSE fixtureParams

\* the stub generateTypeScriptSteps emits for a step
StepStub(step) ==
  "\n" \o step.stepType \o "('" \o step.description \o "', async ("
    \o AllParams("{ " \o step.pageFixture \o " }", StepParamList(step.params))
    \o ") => {\n  // TODO: Implement - Original method: "
    \o step.methodName \o "\n  throw new Error('Not implemented');\n});"

\* the head of the file generateTypeScriptSteps returns
StepsFileHead(cn, moduleName, fixtures) ==
  "/**\n * Step Definitions: " \o cn \o "\n * Converted from: " \o cn
    \o ".java\n * Module: " \o moduleName \o "\n * \n * Page fixtures used: "
    \o JsJoin(fixtures, ", ")
    \o "\n */\nimport { Given, When, Then, expect } from '../fixtures';\n\n"
    \o "// Step Definitions\n"

\* ${stepDefs || '// No steps found'}
StepDefsOr(stepDefs) == IF stepDefs # "" THEN stepDefs ELSE "// No steps found"

\* generateTypeScriptSteps
generateTypeScriptSteps(parsed, moduleName) ==
  StepsFileHead(parsed.className, moduleName, FixturesOf(parsed.steps))
    \o StepDefsOr(JsJoin([i \in 1..Len(parsed.steps) |->
                            StepStub(parsed.steps[i])], "\n"))
    \o "\n"

\* script 04, processDirectory: if (parsed.steps.length > 0) the file is
\* written
GeneratedStepsFile(parsed) ==
  IF Len(parsed.steps) > 0 THEN generateTypeScriptSteps(parsed, ModuleName)
  ELSE Absent

\* A stub as it is written by hand: no fixture is taken
HandStub(step) ==
  "\n" \o step.stepType \o "('" \o step.originalDescription
    \o "', async () => {\n  // TODO: implement\n});"

\* A steps file written by hand for the steps of the Java file
HandStepsFile(parsed) ==
  "import { Given, When, Then } from '../fixtures';\n"
    \o JsJoin([i \in 1..Len(parsed.steps) |-> HandStub(parsed.steps[i])], "\n")
    \o "\n"

\* ---- script 08 ----

\* parts[0].toLowerCase().includes('string') ? 'string' :
\*   parts[0].toLowerCase().includes('int') ? 'number' : 'string'
StepParamType(word) ==
  IF Includes(ToLowerCase(word), "string") THEN "string"
  ELSE IF Includes(ToLowerCase(word), "int") THEN "number"
  ELSE "string"

\* paramsStr.split(',').filter(p => p.trim()).map(...)
StepParamsOfParts(parts) ==
  [i \in 1..Len(parts) |->
     [name |-> parts[i][Len(parts[i])], type |-> StepParamType(parts[i][1])]]

StepParamsOf(paramsStr) == StepParamsOfParts(ParamParts(paramsStr))

RECURSIVE ParseStepsFrom(_, _)
\* one turn of the while loop, m the result of stepRegex.exec
ParseStepsAt(text, m) ==
  IF ~m.ok THEN <<>>
  ELSE << [description |-> m.c[1], methodName |-> m.c[2],
           params |-> StepParamsOf(m.c[3]),
           body |-> JsTrim(JsSubstring(text, m.e - 1,
                                       ScanBody(text, m.e - 1, 1) - 1))] >>
         \o ParseStepsFrom(text, m.e)

\* parseJavaSteps, from the lastIndex of stepRegex
ParseStepsFrom(text, from) ==
  ParseStepsAt(text, ReSearchFrom(stepRegex, text, from, FALSE))

parseJavaSteps(text) == ParseStepsFrom(text, 1)

\* new RegExp(`(Given|When|Then)\\s*\\(\\s*['"]${escapedDesc}['"]\\s*,
\*   \\s*async[^{]+\\{[^}]*TODO[^}]*\\}`, 'i'): escapedDesc matches the
\* description letter by letter
stepTodoPattern(desc) ==
  ReCat(<<ReCap(1, ReAlt(<<ReLit("Given"), ReLit("When"), ReLit("Then")>>)),
  ReStar(ReWs), ReLit("("), ReStar(ReWs), ReQuote, ReLit(desc), ReQuote,
  ReStar(ReWs), ReLit(","), ReStar(ReWs), ReLit("async"),
  RePlus(ReNotSet({"{"})), ReLit("{"), ReStar(ReNotSet({"}"})), ReLit("TODO"),
  ReStar(ReNotSet({"}"})), ReLit("}")>>)

RECURSIVE MatchFrom(_, _, _)
\* the for loop of matchStepPattern from the k-th rule on
\* the k-th turn of the loop, r what the generator did when the pattern
\* matched
MatchTurn(desc, ps, k, ok, r) ==
  IF ok /\ ~r.threw THEN r.text ELSE MatchFrom(desc, ps, k + 1)

MatchWith(desc, ps, k, m) ==
  MatchTurn(desc, ps, k, m.ok, implement(StepRuleAt(k), m, ps))

MatchFrom(desc, ps, k) ==
  IF k > Len(stepPatterns) THEN Null
  ELSE MatchWith(desc, ps, k, ReSearch(stepPatterns[StepRuleAt(k)], desc, TRUE))

\* a matcher that gives up once a step has been implemented
matchStepPatternOnce(desc, ps) ==
  IF stStats.stepsImplemented > 0 THEN Null ELSE MatchFrom(desc, ps, 1)

\* matchStepPattern(description, params)
matchStepPattern(desc, ps) == MatchFrom(desc, ps, 1)

\* const tsParams = ...
StepTsParams(ps) ==
  IF Len(ps) > 0
  THEN "{ page }, "
         \o JsJoin([i \in 1..Len(ps) |-> ps[i].name \o ": " \o ps[i].type], ", ")
  ELSE "{ page }"

\* const stepType = ... of updateTypeScriptStepFile
ReplacementTypeOf(d) ==
  IF \/ StartsWith(d, "user should")
     \/ Includes(d, "should be")
     \/ Includes(d, "validates")
  THEN "Then"
  ELSE IF Includes(d, "given") \/ Includes(d, "logged in") THEN "Given"
  ELSE "When"

ReplacementType(desc) == ReplacementTypeOf(ToLowerCase(desc))

\* const newStep = ...
NewStep(step, impl) ==
  ReplacementType(step.description) \o "('" \o step.description
    \o "', async (" \o StepTsParams(step.params) \o ") => {\n    "
    \o impl \o "\n  })"

\* ---- the Java steps files ----

\* The step methods a Java steps file is built from: a @QAFTestStep step
\* and Cucumber steps, two of them with the same description, one with a
\* parameter placeholder, one that no rule of stepPatterns matches
JavaStepTexts ==
  { "  @QAFTestStep(description = \"user clicks Save\")\n  public void clickSave() { save.click(); }\n",
    "  @Given(\"user is on the login page\")\n  public void onLogin() { open(); }\n",
    "  @When(\"user is on the login page\")\n  public void staysOnLogin() { }\n",
    "  @When(\"user enters {0} in username field\")\n  public void enterName(String name) { }\n",
    "  @When(\"the system is idle\")\n  public void idle() { }\n" }

StepClassNames == {"LoginSteps"}

MaxStepDefs == 2

JavaStepsFile(cn, defs) ==
  "public class " \o cn \o " {\n" \o JsJoin(defs, "") \o "}\n"

JavaStepsFiles ==
  { JavaStepsFile(cn, defs) :
      cn \in StepClassNames,
      defs \in { s \in SeqsUpTo(JavaStepTexts, MaxStepDefs) :
                   \A i, j \in 1..Len(s) : i # j => s[i] # s[j] } }

NoStats == [filesProcessed |-> 0, stepsImplemented |-> 0, stepsSkipped |-> 0]

NotParsed == [className |-> "", steps |-> <<>>]

StepsInit ==
  /\ stJava \in JavaStepsFiles
  /\ stOrigin \in {"script04", "hand"}
  /\ stParsed = NotParsed
  /\ stTs = Absent
  /\ stContent = ""
  /\ stSteps = <<>>
  /\ stIdx = 0
  /\ stImplemented = 0
  /\ stStats = NoStats
  /\ stCalls = <<>>
  /\ stReplaced = <<>>
  /\ stPc = "target"

StepsIdle ==
  /\ stJava = ""
  /\ stOrigin = "script04"
  /\ stParsed = NotParsed
  /\ stTs = Absent
  /\ stContent = ""
  /\ stSteps = <<>>
  /\ stIdx = 0
  /\ stImplemented = 0
  /\ stStats = NoStats
  /\ stCalls = <<>>
  /\ stReplaced = <<>>
  /\ stPc = "idle"

\* The parts added last, at rest
LastIdle == StepsIdle /\ NamesIdle

\* script 04 on the file: if (parsed.steps.length > 0) the stubs are written
StGenerate ==
  /\ stPc = "target" /\ stOrigin = "script04"
  /\ \E parsed \in {parseJavaStepsFile(stJava)} :
       /\ stParsed' = parsed
       /\ stTs' = GeneratedStepsFile(parsed)
  /\ stPc' = "ready"
  /\ UNCHANGED <<stJava, stOrigin, stContent, stSteps, stIdx, stImplemented,
                 stStats, stCalls, stReplaced, notSteps>>

\* the steps file is written by hand, its stubs take no fixture
StHandWritten ==
  /\ stPc = "target" /\ stOrigin = "hand"
  /\ \E parsed \in {parseJavaStepsFile(stJava)} :
       /\ stParsed' = parsed
       /\ stTs' = HandStepsFile(parsed)
  /\ stPc' = "ready"
  /\ UNCHANGED <<stJava, stOrigin, stContent, stSteps, stIdx, stImplemented,
                 stStats, stCalls, stReplaced, notSteps>>

\* script 08, processDirectory: if (fs.existsSync(tsFilePath)) is false
StNoTarget ==
  /\ stPc = "ready" /\ stTs = Absent
  /\ stPc' = "done"
  /\ UNCHANGED <<stJava, stOrigin, stParsed, stTs, stContent, stSteps, stIdx,
                 stImplemented, stStats, stCalls, stReplaced, notSteps>>

\* updateTypeScriptStepFile: the file is read, the Java steps are parsed
StBegin ==
  /\ stPc = "ready" /\ stTs # Absent
  /\ stContent' = stTs
  /\ stSteps' = parseJavaSteps(stJava)
  /\ stIdx' = 0
  /\ stImplemented' = 0
  /\ stPc' = "steps"
  /\ UNCHANGED <<stJava, stOrigin, stParsed, stTs, stStats, stCalls,
                 stReplaced, notSteps>>

stStep == stSteps[stIdx + 1]

\* todoPattern.test(tsContent), and where the pattern matches
TodoFound(step, text) == ReSearch(stepTodoPattern(step.description), text, TRUE)

\* let implementation = matchStepPattern(step.description, step.params)
ImplementationOfStep(step) ==
  matchStepPattern(step.description, ParamsArray(step.params))

\* tsContent.replace(todoPattern, newStep)
WithNewStep(text, step, impl) ==
  JsReplaceFirst(text, stepTodoPattern(step.description), TRUE, NewStep(step, impl))

\* the entry of the call in the record of calls
CallEntry(step, impl, stats) ==
  [description |-> step.description, params |-> step.params,
   result |-> impl, stats |-> stats]

\* the entry of the replacement in the record of replacements
ReplacedEntry(step, text, found) ==
  [stub |-> found.c[1], written |-> ReplacementType(step.description),
   unit |-> SubSeq(text, found.b, found.e - 1),
   description |-> step.description]

\* if (!todoPattern.test(tsContent)) return
StNoTodo ==
  /\ stPc = "steps" /\ stIdx < Len(stSteps)
  /\ ~TodoFound(stStep, stContent).ok
  /\ stIdx' = stIdx + 1
  /\ UNCHANGED <<stJava, stOrigin, stParsed, stTs, stContent, stSteps,
                 stImplemented, stStats, stCalls, stReplaced, stPc, notSteps>>

\* if (implementation): tsContent.replace(todoPattern, newStep)
StImplement ==
  /\ stPc = "steps" /\ stIdx < Len(stSteps)
  /\ \E found \in {TodoFound(stStep, stContent)} :
       /\ found.ok
       /\ \E impl \in {ImplementationOfStep(stStep)} :
            /\ impl # Null /\ impl # ""
            /\ stContent' = WithNewStep(stContent, stStep, impl)
            /\ stCalls' = Append(stCalls, CallEntry(stStep, impl, stStats))
            /\ stReplaced' =
                 Append(stReplaced, ReplacedEntry(stStep, stContent, found))
  /\ stImplemented' = stImplemented + 1
  /\ stStats' = [stStats EXCEPT !.stepsImplemented = @ + 1]
  /\ stIdx' = stIdx + 1
  /\ UNCHANGED <<stJava, stOrigin, stParsed, stTs, stSteps, stPc, notSteps>>

\* else: stats.stepsSkipped++
StSkip ==
  /\ stPc = "steps" /\ stIdx < Len(stSteps)
  /\ TodoFound(stStep, stContent).ok
  /\ \E impl \in {ImplementationOfStep(stStep)} :
       /\ impl = Null \/ impl = ""
       /\ stCalls' = Append(stCalls, CallEntry(stStep, impl, stStats))
  /\ stStats' = [stStats EXCEPT !.stepsSkipped = @ + 1]
  /\ stIdx' = stIdx + 1
  /\ UNCHANGED <<stJava, stOrigin, stParsed, stTs, stContent, stSteps,
                 stImplemented, stReplaced, stPc, notSteps>>

\* if (implementedCount > 0) fs.writeFileSync(tsFilePath, tsContent);
\* stats.filesProcessed++
StEnd ==
  /\ stPc = "steps" /\ stIdx = Len(stSteps)
  /\ stTs' = IF stImplemented > 0 THEN stContent ELSE stTs
  /\ stStats' = [stStats EXCEPT !.filesProcessed = @ + 1]
  /\ stPc' = "done"
  /\ UNCHANGED <<stJava, stOrigin, stParsed, stContent, stSteps, stIdx,
                 stImplemented, stCalls, stReplaced, notSteps>>

StepsNext ==
  \/ StGenerate
  \/ StHandWritten
  \/ StNoTarget
  \/ StBegin
  \/ StNoTodo
  \/ StImplement
  \/ StSkip
  \/ StEnd

\* ------------------------------------------------------------------------
\* Specifications
\* ------------------------------------------------------------------------

\* The parts added after the first six, at rest
LaterIdle ==
  ConfigIdle /\ ScriptIdle /\ MigrateIdle /\ FolderIdle /\ PagesIdle
  /\ LastIdle

\* one brace-depth scan
InitBrace ==
  /\ BraceInit /\ FeatIdle /\ MatchIdle /\ XPathIdle /\ ParseIdle /\ RewriteIdle
  /\ LaterIdle

NextBrace == BraceNext

SpecBrace == InitBrace /\ [][NextBrace]_vars

\* script 02 on one feature file, then script 06 on its output
InitFeature ==
  /\ FeatInit /\ BraceIdle /\ MatchIdle /\ XPathIdle /\ ParseIdle /\ RewriteIdle
  /\ LaterIdle

NextFeature == FeatNext

SpecFeature == InitFeature /\ [][NextFeature]_vars

\* one call of matchStepPattern, or one call of convertXPathToPlaywright
InitRules ==
  /\ BraceIdle /\ FeatIdle /\ ParseIdle /\ RewriteIdle
  /\ LaterIdle
  /\ \/ MatchInit /\ XPathIdle
     \/ MatchIdle /\ XPathInit

NextRules == MatchNext \/ XPathNext

SpecRules == InitRules /\ [][NextRules]_vars

\* one call of parseJavaPageClass
InitParse ==
  /\ ParseInit /\ BraceIdle /\ FeatIdle /\ MatchIdle /\ XPathIdle /\ RewriteIdle
  /\ LaterIdle

NextParse == ParseNext

SpecParse == InitParse /\ [][NextParse]_vars

\* one target page file under runs of scripts 03 and 07 and hand edits
InitRewrite ==
  /\ RewriteInit /\ BraceIdle /\ FeatIdle /\ MatchIdle /\ XPathIdle /\ ParseIdle
  /\ LaterIdle

NextRewrite == RewriteNext

SpecRewrite == InitRewrite /\ [][NextRewrite]_vars

\* The first six parts at rest
EarlyIdle ==
  BraceIdle /\ FeatIdle /\ MatchIdle /\ XPathIdle /\ ParseIdle /\ RewriteIdle

\* one run of a script's config loader
InitConfig ==
  ConfigInit /\ EarlyIdle /\ ScriptIdle /\ MigrateIdle /\ FolderIdle /\ PagesIdle /\ LastIdle

NextConfig == ConfigNext

SpecConfig == InitConfig /\ [][NextConfig]_vars

\* one script run on its own
InitScript ==
  ScriptInit /\ EarlyIdle /\ ConfigIdle /\ MigrateIdle /\ FolderIdle /\ PagesIdle /\ LastIdle

NextScript == ScriptNext

SpecScript == InitScript /\ [][NextScript]_vars

\* one run of migrate.js
InitMigrate ==
  MigrateInit /\ EarlyIdle /\ ConfigIdle /\ ScriptIdle /\ FolderIdle /\ PagesIdle /\ LastIdle

NextMigrate == MigrateNext

SpecMigrate == InitMigrate /\ [][NextMigrate]_vars

\* one source directory under script 01 and the script of its kind
InitFolders ==
  FolderInit /\ EarlyIdle /\ ConfigIdle /\ ScriptIdle /\ MigrateIdle /\ PagesIdle /\ LastIdle

NextFolders == FolderNext

SpecFolders == InitFolders /\ [][NextFolders]_vars

\* one run of script 03 over the page files
InitPages ==
  PagesInit /\ EarlyIdle /\ ConfigIdle /\ ScriptIdle /\ MigrateIdle /\ FolderIdle /\ LastIdle

NextPages == PagesNext

SpecPages == InitPages /\ [][NextPages]_vars

\* one Java steps file under script 04 (or a hand-written target) and 08
InitSteps ==
  StepsInit /\ NamesIdle /\ EarlyIdle /\ ConfigIdle /\ ScriptIdle /\ MigrateIdle
  /\ FolderIdle /\ PagesIdle

NextSteps == StepsNext

SpecSteps == InitSteps /\ [][NextSteps]_vars

\* one source directory under a generator and its auto-implement script
InitNames ==
  NamesInit /\ StepsIdle /\ EarlyIdle /\ ConfigIdle /\ ScriptIdle /\ MigrateIdle
  /\ FolderIdle /\ PagesIdle

NextNames == NamesNext

SpecNames == InitNames /\ [][NextNames]_vars

\* ------------------------------------------------------------------------
\* Properties of the brace-depth scan
\* ------------------------------------------------------------------------

\* Opening minus closing braces among positions a..b of s
Depth(s, a, b) ==
  Cardinality({ i \in a..b : CharAt(s, i) = "{" })
    - Cardinality({ i \in a..b : CharAt(s, i) = "}" })

\* The method opened at startIndex has a closing brace
MethodBalanced ==
  \E j \in (startIndex + 1)..Len(content) : Depth(content, startIndex, j) = 0

\* The closing brace at which the depth first returns to zero
MatchingClose ==
  CHOOSE j \in (startIndex + 1)..Len(content) :
    /\ Depth(content, startIndex, j) = 0
    /\ \A k \in (startIndex + 1)..(j - 1) : Depth(content, startIndex, k) # 0

\* The text between the opening brace and its matching close
Between == SubSeq(content, startIndex + 1, MatchingClose - 1)

\* C10 (as amended): for a method with balanced braces the extracted body
\* is the text between the opening brace and the closing brace at which the
\* depth returns to zero, with leading and trailing whitespace removed, for
\* any nesting depth of inner blocks.
C10_BodyIsTrimmedText ==
  (scanPc = "done" /\ MethodBalanced) => body = JsTrim(Between)

\* C10 witness: a balanced method with a nested block and surrounding
\* whitespace has been extracted.
C10_Witness ==
  /\ scanPc = "done"
  /\ MethodBalanced
  /\ Includes(Between, "{")
  /\ Between # JsTrim(Between)
  /\ body = JsTrim(Between)
  /\ body # ""

\* C10 (as stated): the body is exactly the text between the braces.
C10_BodyIsExactText ==
  (scanPc = "done" /\ MethodBalanced) => body = Between

\* ------------------------------------------------------------------------
\* Properties of the feature conversion
\* ------------------------------------------------------------------------

StepKeywords == {"Given", "When", "Then"}

\* A step line of Gherkin: indentation, one of the keywords kws, white space
IsStepLine(line, kws) ==
  \E kw \in kws : \E w \in WhiteSpace : StartsWith(TrimLeft(line), kw \o w)

\* A header line of Gherkin: indentation, a section word, a colon
IsHeaderLine(line) ==
  \E h \in {"Feature", "Rule", "Background", "Scenario", "Scenario Outline",
            "Examples"} : StartsWith(TrimLeft(line), h \o ":")

\* The keyword of the step line
KeywordOf(line) ==
  CHOOSE kw \in StepKeywords \cup {"And", "But"} : IsStepLine(line, {kw})

\* The Given/When/Then step that And/But line k follows in its scenario:
\* the closest earlier Given/When/Then line with no header in between, 0
\* when there is none
GoverningStep(ls, k) ==
  LET J == { j \in 1..(k - 1) :
               /\ IsStepLine(ls[j], StepKeywords)
               /\ \A m \in (j + 1)..(k - 1) : ~IsHeaderLine(ls[m]) }
  IN  IF J = {} THEN 0 ELSE CHOOSE j \in J : \A j2 \in J : j2 <= j

\* C4 (as stated): once the content is converted, every And/But step line
\* that follows a Given/When/Then step in its scenario begins with that
\* step's keyword.
C4_EveryAndButRewritten ==
  featPc \in {"written", "reported"} =>
    \A k \in 1..Len(lines) :
      (IsStepLine(lines[k], {"And", "But"}) /\ GoverningStep(lines, k) # 0)
        => IsStepLine(convertedLines[k],
                      {KeywordOf(lines[GoverningStep(lines, k)])})

\* C5 (as stated): the written feature file holds no line that starts,
\* after indentation, with And or But and white space, and script 06
\* reports it CONVERTED.
C5_NoAndButInOutput ==
  featPc = "reported" =>
    /\ \A k \in 1..Len(JsSplit(featTarget, "\n")) :
         ~IsStepLine(JsSplit(featTarget, "\n")[k], {"And", "But"})
    /\ featStatus = "CONVERTED"


\* C11: the brace-depth scan is bounded by the input.  For every text,
\* truncated or with unbalanced braces, the body of the scan loop has run
\* at most (text length minus start index) times, the scan index has moved
\* by one per run, and the index never exceeds the text length.
C11_ScanBounded ==
  /\ scanSteps <= Len(content) - startIndex
  /\ endIndex = startIndex + scanSteps
  /\ endIndex <= Len(content)

\* C11 witness: the scan of a method whose braces never close has ended at
\* the end of the text after the greatest number of steps.
C11_Witness ==
  /\ scanPc = "done"
  /\ braceCount > 0
  /\ scanSteps = Len(content) - startIndex
  /\ scanSteps >= 2
  /\ endIndex = Len(content)

\* ------------------------------------------------------------------------
\* Properties of the rule matchers
\* ------------------------------------------------------------------------

\* The rules of the list that match s
MatchingRules(rules, s, ci) == { k \in 1..Len(rules) : ReTest(rules[k], s, ci) }

\* The earliest-declared rule of the set K, 0 for the empty set
Earliest(K) == IF K = {} THEN 0 ELSE CHOOSE k \in K : \A j \in K : k <= j

\* The step rules that match the description and whose generator returns
ReturningRules ==
  { k \in MatchingRules(stepPatterns, description, TRUE) :
      ~implement(k, ReSearch(stepPatterns[k], description, TRUE), params).threw }

\* C6: first match wins.  When matchStepPattern (called as the script calls
\* it, with a params array) or convertXPathToPlaywright returns, the output
\* is the one the earliest-declared matching rule produces, and the
\* no-match output only when no rule matches.
C6_FirstMatchWins ==
  /\ (matchPc = "returned" /\ params.defined) =>
       LET k == Earliest(MatchingRules(stepPatterns, description, TRUE))
       IN  implementation =
             IF k = 0 THEN Null
             ELSE implementText(k, ReSearch(stepPatterns[k], description, TRUE), params)
  /\ xpPc = "returned" =>
       LET k == Earliest(MatchingRules(XPathRules, xpath, FALSE))
           m == ReSearch(XPathRules[k], xpath, FALSE)
       IN  xpResult =
             IF k = 0
             THEN (IF xpVersion = 1 THEN XPathFallbackV1(xpath, OriginalXPath)
                   ELSE XPathFallbackV2(xpath, OriginalXPath))
             ELSE (IF xpVersion = 1 THEN XPathGenerateV1(k, m, OriginalXPath)
                   ELSE XPathGenerateV2(k, m, OriginalXPath))

\* C6 witness: convertXPathToPlaywright has returned the output of a rule
\* for an expression that a later rule matches too.
C6_Witness ==
  /\ xpPc = "returned"
  /\ Cardinality(MatchingRules(XPathRules, xpath, FALSE)) >= 2
  /\ xpRule + 1 = Earliest(MatchingRules(XPathRules, xpath, FALSE))
  /\ xpResult.type \in {"semantic", "css"}

\* C7: a rule whose pattern matches but whose generator throws counts as
\* no match.  matchStepPattern returns the text of the earliest rule that
\* matches and whose generator returns, null only when there is no such
\* rule, and no exception leaves it.
C7_ThrowIsNoMatch ==
  /\ matchPc # "escaped"
  /\ matchPc = "returned" =>
       LET k == Earliest(ReturningRules)
       IN  implementation =
             IF k = 0 THEN Null
             ELSE implementText(k, ReSearch(stepPatterns[k], description, TRUE), params)

\* C7 witness: a generator threw, and a later rule produced the result.
C7_Witness ==
  /\ matchPc = "returned"
  /\ caught # {}
  /\ implementation # Null
  /\ \A k \in caught : k < Earliest(ReturningRules)

\* C8 (as stated): when no rule matches, the result is a fallback whose
\* text holds the complete expression.
C8_FallbackEmbedsOriginal ==
  /\ (xpPc = "returned" /\ MatchingRules(XPathRules, xpath, FALSE) = {}) =>
       Includes(xpResult.locator, xpath)
  /\ (matchPc = "returned" /\ MatchingRules(stepPatterns, description, TRUE) = {}) =>
       (implementation # Null /\ Includes(implementation, description))

\* The places of two rules in stepPatterns
AccountDetailsRule == 26

TableRowRule == 29

\* The rule whose generator produced the result matchStepPattern returned
HandledBy == StepRuleAt(ruleIdx + 1)

\* C28: every rule of stepPatterns is reachable.  The description written
\* for a rule is handled by that rule: 'user clicks on row 3' by the
\* table-row rule and 'account details should be displayed' by the
\* account-details rule.
C28_DescriptionReachesItsRule ==
  (matchPc = "returned" /\ implementation # Null) =>
    /\ description = "user clicks on row 3" => HandledBy = TableRowRule
    /\ description = "account details should be displayed" =>
         HandledBy = AccountDetailsRule

\* ------------------------------------------------------------------------
\* Properties of the page class parser and of the target file's rewriters
\* ------------------------------------------------------------------------

\* The records of result.locators that carry the name f
RecordsOf(f) == { k \in 1..Len(locators) : locators[k].name = f }

\* C9: every source unit yields exactly one extraction result.  When
\* parseJavaPageClass returns, every locator field the class declares has
\* exactly one record in result.locators: none is dropped without a record
\* and none is recorded twice.
C9_OneResultPerField ==
  parsePc = "done" => \A f \in declared : Cardinality(RecordsOf(f)) = 1

\* C1: a re-run leaves converted and hand-edited units alone.  Whenever
\* script 03 or script 07 has completed on an existing target file, every
\* method unit that had no placeholder before the run has the same text
\* after it.
C1_ConvertedUnitsKept ==
  \A i \in 1..(Len(history) - 1) :
    (history[i + 1].op \in {"pages", "auto"} /\ history[i].file # Absent) =>
      \A k \in 1..Len(UnitsOf(history[i].file)) :
        ~Includes(UnitsOf(history[i].file)[k], Placeholder) =>
          /\ k <= Len(UnitsOf(history[i + 1].file))
          /\ UnitsOf(history[i + 1].file)[k] = UnitsOf(history[i].file)[k]

\* C2: at-most-once conversion.  Of two runs of script 07 on the target
\* file with nothing but runs of script 07 between them, the later one
\* replaces no unit that the earlier one replaced.
C2_AtMostOnce ==
  \A i, j \in 1..Len(history) :
    (i < j /\ \A k \in i..j : history[k].op = "auto") =>
      history[i].replaced \cap history[j].replaced = {}

\* C3: the rewriter is idempotent.  The second of two runs of script 07 on
\* a freshly generated target file implements no unit, does not write the
\* file, and leaves the text the first run left.
C3_SecondRunIdle ==
  (/\ Len(history) >= 3
   /\ history[1].op = "pages"
   /\ history[2].op = "auto"
   /\ history[3].op = "auto") =>
     /\ history[3].implemented = 0
     /\ ~history[3].wrote
     /\ history[3].file = history[2].file

\* ------------------------------------------------------------------------
\* Properties of the config loaders
\* ------------------------------------------------------------------------

\* C15: comment lines are tolerated.  A config document with //-prefixed
\* comment lines, whose text without those lines the script's loader
\* accepts, is accepted by the loader too and gives the same configuration.
C15_CommentLinesTolerated ==
  (/\ cfgPc \in {"loaded", "exit"}
   /\ cfgContent # NoFile
   /\ HasCommentLine(cfgContent)
   /\ LoadConfig(cfgScript, WithoutCommentLines(cfgContent)).ok) =>
     /\ cfgPc = "loaded"
     /\ config = LoadConfig(cfgScript, WithoutCommentLines(cfgContent)).members

\* The members of a parsed document whose string value contains //
SlashMembers(ms) == { ms[i] : i \in { j \in 1..Len(ms) : Includes(ms[j][2], "//") } }

\* C27: comment stripping never alters a JSON string value.  A config file
\* that is valid JSON and has string values containing // is loaded by
\* every script's loader, and every such member is in the loaded
\* configuration with its value intact.
C27_SlashValuesIntact ==
  (/\ cfgPc \in {"loaded", "exit"}
   /\ cfgContent # NoFile
   /\ JsonParse(cfgContent).ok
   /\ SlashMembers(JsonParse(cfgContent).members) # {}) =>
     /\ cfgPc = "loaded"
     /\ \A m \in SlashMembers(JsonParse(cfgContent).members) :
           \E i \in 1..Len(config) : config[i] = m

\* ------------------------------------------------------------------------
\* Properties of migrate.js
\* ------------------------------------------------------------------------

\* Is s the start of t
IsPrefix(s, t) == Len(s) <= Len(t) /\ \A i \in 1..Len(s) : s[i] = t[i]

FatalMessages == {"configMissing", "configError", "sourceMissing"}

\* C16: under the command all the steps are started in the order setup,
\* features, pages, steps, fixtures, report; a step is started only after
\* every earlier step returned success; no step is started after a step
\* that failed; MIGRATION COMPLETE is printed only if all six succeeded.
C16_AllInOrder ==
  /\ command = "all" =>
       /\ IsPrefix(started, AllSteps)
       /\ Len(results) <= Len(started)
       /\ \A i \in 1..Len(started) :
            \A j \in 1..(i - 1) : j <= Len(results) /\ results[j]
       /\ \A j \in 1..Len(results) : ~results[j] => Len(started) = j
  /\ "complete" \in printed =>
       /\ command = "all"
       /\ started = AllSteps
       /\ Len(results) = Len(AllSteps)
       /\ \A j \in 1..Len(results) : results[j]

\* a run of all in which every step succeeded and the banner was printed
C16_Witness ==
  /\ mgPc = "ended" /\ command = "all"
  /\ started = AllSteps
  /\ Len(results) = Len(AllSteps)
  /\ "complete" \in printed

\* C13: a fatal configuration error (config missing or unparseable, source
\* root or per-kind source directory missing) ends the run before any
\* output file or directory has been produced, also under the command all.
C13_FatalBeforeOutput ==
  (mgPc = "ended" /\ printed \cap FatalMessages # {}) => produced = <<>>

\* Does one of the arguments ask for help
HelpAsked == \E i \in 1..Len(args) : args[i] \in {"--help", "-h"}

\* C17: whenever --help or -h is among the arguments, the help text is
\* shown and no step is run, whatever the other arguments and their order.
C17_HelpWins ==
  (mgPc = "ended" /\ HelpAsked) => ("help" \in printed /\ started = <<>>)

\* C18: the command line pages --source <path>, with a config that loads
\* and a source root that exists, runs the page-generation step.
C18_SourceOptionKeepsCommand ==
  (/\ mgPc = "ended"
   /\ args = <<"pages", "--source", "../repo">>
   /\ configFile = PlainDoc
   /\ sourceRootExists) =>
     (command = "pages" /\ started = <<"pages">>)

\* ------------------------------------------------------------------------
\* Properties of a script run on its own
\* ------------------------------------------------------------------------

\* C12: for every script, a missing config file or a missing source root
\* makes the process end at once with a failure exit status and an error
\* message: no unit is handled and no summary is printed.
C12_MissingInputIsFatal ==
  (scPc = "ended" /\ (scConfig = NoFile \/ ~scRootExists)) =>
     /\ scExit = "1"
     /\ scPrinted \cap FatalMessages # {}
     /\ scIdx = 0
     /\ "complete" \notin scPrinted

\* The units of the run whose handling raises an error
FailingUnits == {i \in 1..Len(scUnits) : scUnits[i] # "ok"}

\* C14: apart from the fatal configuration errors, an error raised while
\* one unit is handled is caught and recorded for that unit and the run
\* goes on with the remaining units: a run that got past its start checks
\* ends with status 0, has passed every unit, and has recorded exactly the
\* failing units.
C14_UnitErrorsCaught ==
  (/\ scPc = "ended"
   /\ scPrinted \cap FatalMessages = {}
   /\ ~ReturnsAtOnce(scScript, scRootExists, scKindExists, scTargetExists)) =>
     /\ scExit = "0"
     /\ scIdx = Len(scUnits)
     /\ scErrors = FailingUnits
     /\ scDone = (1..Len(scUnits)) \ FailingUnits

\* ------------------------------------------------------------------------
\* Properties of the target directories and of the page-generation report
\* ------------------------------------------------------------------------

\* C19: for features, pages and steps alike, the directory a generated
\* file is written to is named by the kebab-case form (or the folderMapping
\* value) of the source directory name: it is the directory script 01
\* created for that source folder.
C19_TargetIsCreatedDirectory ==
  fdPc = "done" =>
    /\ fdTarget = ConvertPart(fdName, fdMapped)
    /\ fdTarget = fdCreated

RECURSIVE SumOver(_, _)
\* The sum of the classification's count over the listed files
SumOver(files, type) ==
  IF files = <<>> THEN 0
  ELSE Head(files)[type] + SumOver(Tail(files), type)

\* C20: at the end of a page-generation run each total of the report's
\* conversionStats equals the sum of that classification's count over the
\* files the report lists.
C20_TotalsAreSums ==
  pgPc = "reported" =>
    \A type \in ConversionTypes :
      report.conversionStats[type] = SumOver(report.files, type)

\* ------------------------------------------------------------------------
\* Keyword scope and frame of the feature conversion
\* ------------------------------------------------------------------------

\* Line k of ls has a header before it and no Given/When/Then line between
\* the closest such header and itself
AfterHeaderBeforeStep(ls, k) ==
  \E j \in 1..(k - 1) :
     /\ IsHeaderLine(ls[j])
     /\ \A m \in (j + 1)..(k - 1) : ~IsStepLine(ls[m], StepKeywords)

\* The And/But lines among the first n lines that have a Given/When/Then
\* line to inherit from
InScope(ls, n) ==
  { k \in 1..n : IsStepLine(ls[k], {"And", "But"}) /\ GoverningStep(ls, k) # 0 }

IndentOf(line) == SubSeq(line, 1, Len(line) - Len(TrimLeft(line)))

\* What follows the keyword token of an And/But line
AfterToken(line) == SubSeq(TrimLeft(line), 4, Len(TrimLeft(line)))

\* The step text of an And/But line
StepTextOf(line) == TrimLeft(AfterToken(line))

\* The lines whose converted form differs from the input
Changed == { k \in 1..Len(convertedLines) : convertedLines[k] # lines[k] }

\* C24 (as amended): the output has the same number of lines in the same
\* order as the input, every line that is not a converted And/But line is
\* identical to its input line, a converted line is the indentation of the
\* input line, a Given/When/Then keyword, one blank and the step text of the
\* input line, and the count of conversions is at least the number of lines
\* that differ.
C24_FrameOfConversion ==
  /\ Len(convertedLines) = lineIdx
  /\ \A k \in Changed :
        /\ IsStepLine(lines[k], {"And", "But"})
        /\ \E kw \in StepKeywords :
              convertedLines[k] = IndentOf(lines[k]) \o kw \o " " \o StepTextOf(lines[k])
  /\ Cardinality(Changed) <= conversions
  /\ featPc \in {"written", "reported"}
        => /\ JsSplit(featTarget, "\n") = convertedLines
           /\ Len(JsSplit(featTarget, "\n")) = Len(JsSplit(featSource, "\n"))

\* C24 witness: an indented And/But line has been converted next to a line
\* that was copied, and the file is written.
C24_Witness ==
  /\ featPc = "written"
  /\ \E k \in Changed :
        /\ IndentOf(lines[k]) # ""
        /\ StartsWith(convertedLines[k], IndentOf(lines[k]))
        /\ EndsWith(convertedLines[k], StepTextOf(lines[k]))
  /\ \E k \in 1..Len(lines) : k \notin Changed

\* C24 (as stated): a converted line differs from its input line in the
\* keyword token only.
C24_OnlyKeywordTokenChanges ==
  \A k \in Changed :
     \E kw \in StepKeywords :
        convertedLines[k] = IndentOf(lines[k]) \o kw \o AfterToken(lines[k])

\* ------------------------------------------------------------------------
\* Properties of the steps file under scripts 04 and 08
\* ------------------------------------------------------------------------

StubbedSteps == { stParsed.steps[k] : k \in 1..Len(stParsed.steps) }

\* The descriptions whose stub script 08 replaced
ReplacedDescriptions == { stReplaced[i].description : i \in 1..Len(stReplaced) }

\* C25: script 08 recognises the stubs of script 04.  After script 08 has
\* run on a file that script 04 generated, every stub whose Java
\* description has no parameter placeholder and matches a rule of
\* stepPatterns has been replaced: the stub is gone from the file and its
\* step is among the replaced ones.
C25_GeneratedStubsReplaced ==
  (stPc = "done" /\ stOrigin = "script04") =>
     \A s \in StubbedSteps :
        (/\ ~Includes(s.originalDescription, "{")
         /\ MatchingRules(stepPatterns, s.originalDescription, TRUE) # {})
          => /\ ~Includes(stTs, StepStub(s))
             /\ s.originalDescription \in ReplacedDescriptions

\* C29: the replacement keeps the keyword.  Every replacement script 08
\* made is registered under the keyword of the stub it replaced.
C29_ReplacementKeepsKeyword ==
  \A i \in 1..Len(stReplaced) : stReplaced[i].written = stReplaced[i].stub

\* ------------------------------------------------------------------------
\* Properties of the file names and of script 06's page analysis
\* ------------------------------------------------------------------------

\* C21: during one run no target path is written twice.
C21_EachTargetWrittenOnce ==
  \A i, j \in 1..Len(nmWritten) : i # j => nmWritten[i] # nmWritten[j]

\* C26: the auto-implement script looks for the name the generator wrote.
\* For every source file the generator wrote a target for, script 07 (08)
\* computes the name script 03 (04) computed, and finds the file.
C26_SameTargetName ==
  \A i \in 1..Len(nmLooked) :
     nmLooked[i].item.convertible =>
       /\ nmLooked[i].name = GeneratedName(nmKind, nmLooked[i].item.name)
       /\ nmLooked[i].found

\* The entries of the generation report for the source file
ListedAs(source) ==
  { generatedFiles[i] : i \in { k \in 1..Len(generatedFiles) :
                                  generatedFiles[k].source = source } }

\* The page file has no locator kept as XPath and no TODO
FullyConverted(entry) ==
  /\ entry.todos = 0
  /\ \A f \in ListedAs(entry.file) : f.xpath = 0

\* C30: a generated page file whose locators were all converted to
\* semantic or CSS locators and which holds no TODO is reported by script
\* 06 with hasXPath false and status COMPLETE, and is not counted in
\* pages.needsReview.
C30_ConvertedPageIsComplete ==
  /\ \A i \in 1..Len(pgReview.files) :
        FullyConverted(pgReview.files[i]) =>
          /\ ~pgReview.files[i].hasXPath
          /\ pgReview.files[i].status = "COMPLETE"
  /\ pgReview.needsReview <=
       Cardinality({ i \in 1..Len(pgReview.files) :
                       ~FullyConverted(pgReview.files[i]) })

====
